---- MODULE Spec2Model ----
(***************************************************************************)
(* Model of the conversational follow-record service (repository           *)
(* xman1978/sale, directory records/): the chat gateway's message handler  *)
(* with its deduplication cache, the per-user serializer, the turn         *)
(* orchestrator with the rule engine, the repository transaction and the   *)
(* output worker pool.                                                     *)
(*                                                                         *)
(* The database is PostgreSQL (sql/schema.sql).  A ProcessTurn transaction *)
(* is modelled in two steps: TurnBegin runs the body up to and including   *)
(* SubmitTask against the committed rows and keeps its writes in the       *)
(* handler's transaction record; TurnCommit applies them, TurnAbort drops  *)
(* them.  The output worker's statements run on the connection pool (they  *)
(* are passed the outer ctx, not txCtx), so each is committed on its own.  *)
(***************************************************************************)
EXTENDS Integers, Sequences, FiniteSets, TLC

(***************************************************************************)
(* Bounds of the model.                                                    *)
(***************************************************************************)
\* deliveries the gateway makes in one behaviour
MaxDeliveries == 4
\* distinct messages a user sends (a delivery repeats one or sends the next)
MaxMsgs == 4
\* session rows ever committed
MaxSessions == 2
\* injected infrastructure failures (database errors, failed sends)
MaxFaults == 1
\* scaled-down capacity of the task channel (100 in the source)
QueueCap == 1
\* deliveries and distinct messages with two handler goroutines
MaxConcDeliveries == 3
MaxConcMsgs == 2
\* messages of each user when two users talk in turn
MaxPairTurns == 3
\* messages, and deliveries, when the calls of the language model can fail
MaxLLMMsgs == 3
\* messages, deliveries and failures when the worker's statements can fail
\* after a turn was rolled back
MaxWorkerMsgs == 3
MaxWorkerFaults == 2

(***************************************************************************)
(* models.go: states, stages, relevance, StateFieldMap.                    *)
(***************************************************************************)
StateCustomerName == "CUSTOMER_NAME"
StateFollowMethod == "FOLLOW_METHOD"
StateFollowContent == "FOLLOW_CONTENT"
StateFollowGoal == "FOLLOW_GOAL"
StateFollowResult == "FOLLOW_RESULT"
StateNextPlan == "NEXT_PLAN"
StateComplete == "COMPLETE"

StatusCollecting == "COLLECTING"
StatusAskingOtherCustomers == "ASKING_OTHER_CUSTOMERS"
StatusConfirming == "CONFIRMING"
StatusOutputting == "OUTPUTTING"
StatusExit == "EXIT"

SemanticStrong == "STRONG"
SemanticNone == "NONE"

\* a nil pointer (focus_customer_id, mentioned customer, *string field)
Nil == "nil"
\* a JSON null inside field_updates
Null == "null"
\* the zero value of a Go string
Empty == ""

GetFieldByState(state) ==
    CASE state = StateCustomerName -> "customer_name"
      [] state = StateFollowMethod -> "follow_method"
      [] state = StateFollowContent -> "follow_content"
      [] state = StateFollowGoal -> "follow_goal"
      [] state = StateFollowResult -> "follow_result"
      [] state = StateNextPlan -> "next_plan"
      [] OTHER -> Empty

IsCollectionStatus(status) ==
    status \in {StatusCollecting, StatusConfirming, StatusAskingOtherCustomers}

(***************************************************************************)
(* Go maps as functions with a finite domain.                              *)
(***************************************************************************)
EmptyMap == [k \in {} |-> Empty]

MapPut(m, k, v) == [x \in DOMAIN m \cup {k} |-> IF x = k THEN v ELSE m[x]]

MapDel(m, k) == [x \in DOMAIN m \ {k} |-> m[x]]

\* m[k] for a map of maps: a missing key yields the nil map, which reads as
\* the empty map
MapGet(m, k) == IF k \in DOMAIN m THEN m[k] ELSE EmptyMap

\* fmt.Sprintf("%v", v) on the string values of the model
Sprintf(v) == v

(***************************************************************************)
(* Identifiers.  uuid.New() is a fresh identifier: customers draw theirs   *)
(* from CustIds, compared as strings by CustRank.                          *)
(***************************************************************************)
Users == {"u1", "u2"}
CustIdSeq == <<"c1", "c2", "c3">>
CustIds == {CustIdSeq[i] : i \in 1..Len(CustIdSeq)}
CustRank(c) == CHOOSE i \in 1..Len(CustIdSeq) : CustIdSeq[i] = c
CustNames == {"A", "B"}

(***************************************************************************)
(* Rule engine (package engine).                                           *)
(***************************************************************************)
\* a *string field of a FollowRecord is unset when nil or ""
Unset(fr, f) == fr[f] = Nil \/ fr[f] = Empty

\* variant: only a nil field counts as missing, "" counts as filled
DetermineStateNilOnly(customer, followRecord) ==
    IF customer.id = Nil THEN StateCustomerName
    ELSE IF followRecord.cust = Nil THEN StateFollowContent
    ELSE IF followRecord.follow_content = Nil THEN StateFollowContent
    ELSE IF followRecord.follow_goal = Nil THEN StateFollowGoal
    ELSE IF followRecord.follow_result = Nil THEN StateFollowResult
    ELSE IF followRecord.next_plan = Nil THEN StateNextPlan
    ELSE IF followRecord.follow_method = Nil THEN StateFollowMethod
    ELSE StateComplete

\* a nil *Customer is the row NoCustomer, a nil *FollowRecord the record
\* NoRecord: their identifier is Nil
DetermineState(customer, followRecord) ==
    IF customer.id = Nil THEN StateCustomerName
    ELSE IF followRecord.cust = Nil THEN StateFollowContent
    ELSE IF Unset(followRecord, "follow_content") THEN StateFollowContent
    ELSE IF Unset(followRecord, "follow_goal") THEN StateFollowGoal
    ELSE IF Unset(followRecord, "follow_result") THEN StateFollowResult
    ELSE IF Unset(followRecord, "next_plan") THEN StateNextPlan
    ELSE IF Unset(followRecord, "follow_method") THEN StateFollowMethod
    ELSE StateComplete

\* variant: COLLECTING only when no customer is COMPLETE
DetermineStatusAll(customerStates) ==
    IF DOMAIN customerStates = {} THEN StatusAskingOtherCustomers
    ELSE IF \A c \in DOMAIN customerStates : customerStates[c] # StateComplete
         THEN StatusCollecting
    ELSE StatusConfirming

DetermineStatus(customerStates) ==
    IF DOMAIN customerStates = {} THEN StatusAskingOtherCustomers
    ELSE IF \E c \in DOMAIN customerStates : customerStates[c] # StateComplete
         THEN StatusCollecting
    ELSE StatusConfirming

SelectStateOrder ==
    <<StateCustomerName, StateFollowContent, StateFollowGoal,
      StateFollowResult, StateNextPlan, StateFollowMethod>>

\* The customers the scan of step 3 can return: the outer loop takes the
\* states in order, the inner loop ranges over a Go map, whose iteration
\* order is unspecified, and returns the first customer in that state.
FirstInOrder(customerStates, order) ==
    LET hit(i) == {c \in DOMAIN customerStates : customerStates[c] = order[i]}
        first == {i \in 1..Len(order) :
                     hit(i) # {} /\ \A j \in 1..(i - 1) : hit(j) = {}}
    IN  UNION {hit(i) : i \in first}

\* the set of results SelectFocusCustomer can return
SelectFocusCustomer(currentFocus, mentionedCustomer, customerStates, status) ==
    IF status = StatusConfirming
    THEN {IF mentionedCustomer # Nil THEN mentionedCustomer ELSE currentFocus}
    ELSE IF status = StatusAskingOtherCustomers /\ mentionedCustomer # Nil
    THEN {mentionedCustomer}
    ELSE IF mentionedCustomer # Nil THEN {mentionedCustomer}
    ELSE IF /\ currentFocus # Nil
            /\ currentFocus \in DOMAIN customerStates
            /\ customerStates[currentFocus] # StateComplete
    THEN {currentFocus}
    ELSE LET s == FirstInOrder(customerStates, SelectStateOrder)
         IN  IF s = {} THEN {Nil} ELSE s

CanWriteRisk(semanticRelevance, currentState) ==
    /\ semanticRelevance = SemanticStrong
    /\ currentState \in {StateFollowResult, StateNextPlan}

\* newState of HandleFieldModification ("" for a field it does not map);
\* fieldsToReset is always empty
HandleFieldModification(modifiedField) ==
    CASE modifiedField = "customer_name" -> StateCustomerName
      [] modifiedField = "follow_content" -> StateFollowContent
      [] modifiedField = "follow_goal" -> StateFollowGoal
      [] modifiedField = "follow_result" -> StateFollowResult
      [] modifiedField = "next_plan" -> StateNextPlan
      [] modifiedField = "follow_method" -> StateFollowMethod
      [] OTHER -> Empty

(***************************************************************************)
(* Rows.  A customer row, a follow record and the reads of the dialogs     *)
(* table the orchestrator makes (package repository).                      *)
(***************************************************************************)
Customer(id, name) ==
    [id |-> id, name |-> name,
     contact_person |-> Nil, contact_role |-> Nil, contact_phone |-> Nil]

NoCustomer == Customer(Nil, Empty)

\* GetCustomer: the row with this id, NoCustomer (nil) when there is none
GetCustomer(custs, id) ==
    IF \E c \in custs : c.id = id THEN CHOOSE c \in custs : c.id = id
    ELSE NoCustomer

UpdateCustomer(custs, row) == {c \in custs : c.id # row.id} \cup {row}

\* time.Time values: the created_at of the dialog row of a turn, the time
\* of the running turn, or a time the user stated
TimeOfDialog(idx) == [k |-> "dialog", at |-> idx]
TimeNow == [k |-> "now", at |-> 0]
TimeUser == [k |-> "user", at |-> 0]
\* the strings time.ParseInLocation("2006-01-02") or time.Parse(RFC3339) accept
DateValues == {"2024-05-01"}

RecordFields ==
    {"follow_method", "follow_content", "follow_goal", "follow_result",
     "next_plan", "risk_content"}

SessionDialogs(ds, sid) == {d \in ds : d.sid = sid}

\* GetLatestDialog: ORDER BY turn_index DESC LIMIT 1 (of a session with rows)
GetLatestDialog(ds, sid) ==
    CHOOSE d \in SessionDialogs(ds, sid) :
        \A e \in SessionDialogs(ds, sid) : e.idx <= d.idx

\* GetLatestFocusCustomerIDFromDialogs
GetLatestFocusCustomerIDFromDialogs(ds, sid) ==
    LET rows == {d \in SessionDialogs(ds, sid) : d.focus # Nil}
    IN  IF rows = {} THEN Nil
        ELSE (CHOOSE d \in rows : \A e \in rows : e.idx <= d.idx).focus

isFirstFocusForCustomer(ds, sid, customerID) ==
    ~ \E d \in SessionDialogs(ds, sid) : d.focus = customerID

\* the created_at of the first row, by turn_index, in which the customer is
\* focus with is_first_focus set; time.Now() when there is none
getFirstFocusTimeForCustomer(ds, sid, customerID) ==
    LET rows == {d \in SessionDialogs(ds, sid) :
                    d.focus = customerID /\ d.first}
    IN  IF rows = {} THEN TimeNow
        ELSE TimeOfDialog((CHOOSE d \in rows : \A e \in rows : d.idx <= e.idx).idx)

NoRecord ==
    [cust |-> Nil, name |-> Empty, contact_person |-> Nil, contact_role |-> Nil,
     contact_phone |-> Nil, time |-> TimeNow, follow_method |-> Nil,
     follow_content |-> Nil, follow_goal |-> Nil, follow_result |-> Nil,
     next_plan |-> Nil, risk_content |-> Nil, user |-> Nil, sid |-> 0, by |-> Nil]

\* GetLatestFollowRecord: the customer's record with the latest follow_time
\* (the last one inserted, in the model)
GetLatestFollowRecord(frs, customerID) ==
    LET is == {i \in 1..Len(frs) : frs[i].cust = customerID}
    IN  IF is = {} THEN NoRecord ELSE frs[CHOOSE i \in is : \A j \in is : j <= i]

buildFollowRecordFromCollectedData(customer, d) ==
    IF customer.id = Nil THEN NoRecord
    ELSE LET fld(k) == IF k \in DOMAIN d THEN Sprintf(d[k]) ELSE Nil
         IN  [cust |-> customer.id, name |-> customer.name,
              contact_person |-> customer.contact_person,
              contact_role |-> customer.contact_role,
              contact_phone |-> customer.contact_phone,
              time |-> IF "follow_time" \in DOMAIN d
                          /\ Sprintf(d["follow_time"]) \in DateValues
                       THEN TimeUser ELSE TimeNow,
              follow_method |-> fld("follow_method"),
              follow_content |-> fld("follow_content"),
              follow_goal |-> fld("follow_goal"),
              follow_result |-> fld("follow_result"),
              next_plan |-> fld("next_plan"),
              risk_content |-> fld("risk_content"),
              user |-> Nil, sid |-> 0, by |-> Nil]

(***************************************************************************)
(* Turn orchestrator: the steps of processWithRuleEngine.  A context c is  *)
(* the state of the running turn: rt the RuntimeContext, custs and frs the *)
(* customers and follow_records tables as the transaction sees them, free  *)
(* the identifiers uuid.New() can still return, err a returned error.      *)
(* Operators that range over a Go map return the set of possible results.  *)
(***************************************************************************)
PendOf(rt, customerID) == MapGet(rt.pend, customerID)

\* PendingUpdates[customerKey][key] = value, creating the inner map
PendWrite(rt, customerID, key, value) ==
    LET inner == IF customerID \in DOMAIN rt.pend
                 THEN rt.pend[customerID] ELSE EmptyMap
    IN  [rt EXCEPT !.pend = MapPut(rt.pend, customerID, MapPut(inner, key, value))]

ensureFocusWhenPending(rt, ds) ==
    IF rt.focus # Nil \/ DOMAIN rt.pend = {} THEN rt
    ELSE IF ~ IsCollectionStatus(rt.status) THEN rt
    ELSE LET latest == GetLatestFocusCustomerIDFromDialogs(ds, rt.sid)
         IN  IF latest # Nil /\ latest \in DOMAIN rt.pend
             THEN [rt EXCEPT !.focus = latest] ELSE rt

writeFieldToRuntime(rt, customerID, fieldName, value) ==
    IF fieldName = "customer_name" THEN rt
    ELSE IF fieldName = "follow_time"
    THEN PendWrite(rt, customerID, "follow_time", Sprintf(value))
    ELSE IF fieldName \in {"follow_method", "follow_content", "follow_goal",
                           "follow_result", "next_plan", "risk"}
    THEN PendWrite(rt, customerID,
                   IF fieldName = "risk" THEN "risk_content" ELSE fieldName,
                   Sprintf(value))
    ELSE rt

Given(fieldUpdates, k) == k \in DOMAIN fieldUpdates /\ fieldUpdates[k] # Null

handleCurrentFieldWrite(rt, fieldUpdates) ==
    LET currentField == GetFieldByState(rt.state)
        inner == PendOf(rt, rt.focus)
        value == IF Given(fieldUpdates, currentField) THEN fieldUpdates[currentField]
                 ELSE IF currentField \in DOMAIN inner
                 THEN inner[currentField] ELSE Nil
    IN  IF value # Nil THEN writeFieldToRuntime(rt, rt.focus, currentField, value)
        ELSE rt

handlePendingUpdates(rt, fieldUpdates) ==
    IF rt.focus = Nil THEN rt
    ELSE LET currentField == GetFieldByState(rt.state)
             inner == IF rt.focus \in DOMAIN rt.pend
                      THEN rt.pend[rt.focus] ELSE EmptyMap
             keep == {f \in DOMAIN fieldUpdates :
                         /\ f # currentField /\ f # "risk" /\ f # "contact_person"
                         /\ fieldUpdates[f] # Null}
             merged == [f \in DOMAIN inner \cup keep |->
                           IF f \in keep THEN fieldUpdates[f] ELSE inner[f]]
         IN  [rt EXCEPT !.pend = MapPut(rt.pend, rt.focus, merged)]

\* writeContactPerson with the map handleSpecialFields builds
writeContactPerson(custs, customerID, fieldUpdates) ==
    LET c == GetCustomer(custs, customerID)
        pick(k, old) == IF Given(fieldUpdates, k) THEN Sprintf(fieldUpdates[k]) ELSE old
    IN  UpdateCustomer(custs,
            [c EXCEPT !.contact_person = pick("contact_person", @),
                      !.contact_role = pick("contact_role", @),
                      !.contact_phone = pick("contact_phone", @)])

handleSpecialFields(c, fieldUpdates) ==
    LET rt1 == IF Given(fieldUpdates, "risk")
                  /\ CanWriteRisk(c.rt.rel, c.rt.state)
               THEN writeFieldToRuntime(c.rt, c.rt.focus, "risk", fieldUpdates["risk"])
               ELSE c.rt
        hasContact == \E k \in {"contact_person", "contact_role", "contact_phone"} :
                         Given(fieldUpdates, k)
    IN  [c EXCEPT !.rt = rt1,
                  !.custs = IF hasContact
                            THEN writeContactPerson(c.custs, c.rt.focus, fieldUpdates)
                            ELSE @,
                  !.wrote = IF hasContact THEN @ \cup {c.rt.focus} ELSE @]

handleFieldModificationInConfirming(rt, modifiedField, newValue) ==
    IF modifiedField \in {"follow_time", "risk_content", "risk"}
    THEN PendWrite(rt, rt.focus,
                   IF modifiedField = "risk" THEN "risk_content" ELSE modifiedField,
                   Sprintf(newValue))
    ELSE LET newState == HandleFieldModification(modifiedField)
         IN  IF newState = Empty THEN rt
             ELSE [PendWrite(rt, rt.focus, modifiedField, Sprintf(newValue))
                      EXCEPT !.state = newState, !.reconf = TRUE]

\* The loop ranges over the Go map fieldUpdates and returns at the first
\* entry that is neither risk nor contact_person and is not nil: any such
\* entry can be the one handled.
handleConfirmingStageModifications(rt, fieldUpdates) ==
    LET cand == {f \in DOMAIN fieldUpdates :
                    f # "risk" /\ f # "contact_person" /\ fieldUpdates[f] # Null}
    IN  IF cand = {} THEN {rt}
        ELSE {handleFieldModificationInConfirming(rt, f, fieldUpdates[f]) : f \in cand}

processFieldUpdates(c, fieldUpdates) ==
    IF c.rt.focus = Nil THEN {c}
    ELSE IF c.rt.status = StatusConfirming
    THEN {[c EXCEPT !.rt = r] : r \in handleConfirmingStageModifications(c.rt, fieldUpdates)}
    ELSE {handleSpecialFields(
              [c EXCEPT !.rt = handlePendingUpdates(
                                   handleCurrentFieldWrite(c.rt, fieldUpdates),
                                   fieldUpdates)],
              fieldUpdates)}

getAllCustomerStates(c, db) ==
    LET rt == c.rt
        customerIDs == DOMAIN rt.pend \cup ({rt.focus, rt.mentioned} \ {Nil})
        followRecord(id) ==
            IF IsCollectionStatus(rt.status)
            THEN buildFollowRecordFromCollectedData(GetCustomer(c.custs, id), PendOf(rt, id))
            ELSE GetLatestFollowRecord(db.frs \o c.frs, id)
    IN  [id \in customerIDs |->
            DetermineState(GetCustomer(c.custs, id), followRecord(id))]

RecalcStateOrder == SelectStateOrder \o <<StateComplete>>

\* recalculateStates without its fallback
NoSortedFirst(customerStates) == Nil

\* the fallback of recalculateStates: customer ids sorted as strings, the
\* first one in the earliest state of the order
SortedFirst(customerStates) ==
    LET hit(i) == {x \in DOMAIN customerStates : customerStates[x] = RecalcStateOrder[i]}
        is == {i \in 1..Len(RecalcStateOrder) : hit(i) # {}}
    IN  IF is = {} THEN Nil
        ELSE LET i0 == CHOOSE i \in is : \A j \in is : i <= j
             IN  CHOOSE x \in hit(i0) : \A y \in hit(i0) : CustRank(x) <= CustRank(y)

recalculateStates(c, db) ==
    LET rt == c.rt
        customerStates == getAllCustomerStates(c, db)
        previousFocusCustomerID == rt.focus
        after(sel) ==
            LET f1 == IF sel = Nil /\ DOMAIN rt.pend # {} /\ DOMAIN customerStates # {}
                      THEN SortedFirst(customerStates) ELSE sel
                rt1 == IF f1 = Nil /\ DOMAIN rt.pend # {}
                       THEN ensureFocusWhenPending([rt EXCEPT !.focus = Nil], db.ds)
                       ELSE [rt EXCEPT !.focus = f1]
                f == rt1.focus
                first == IF f # Nil /\ previousFocusCustomerID # f
                         THEN isFirstFocusForCustomer(db.ds, rt.sid, f)
                         ELSE rt.first
                customer == GetCustomer(c.custs, f)
                followRecord ==
                    IF IsCollectionStatus(rt.status)
                    THEN buildFollowRecordFromCollectedData(customer, PendOf(rt, f))
                    ELSE GetLatestFollowRecord(db.frs \o c.frs, f)
                state == IF f # Nil THEN DetermineState(customer, followRecord)
                         ELSE rt.state
                newStatus == DetermineStatus(customerStates)
                override == /\ newStatus = StatusAskingOtherCustomers
                            /\ rt.reconf
                            /\ DOMAIN customerStates # {}
            IN  [rt1 EXCEPT !.first = first,
                            !.state = state,
                            !.status = IF override THEN StatusConfirming ELSE newStatus,
                            !.reconf = IF override \/ newStatus = StatusAskingOtherCustomers
                                       THEN FALSE ELSE @]
    IN  {[c EXCEPT !.rt = after(sel)] :
            sel \in SelectFocusCustomer(rt.focus, rt.mentioned, customerStates, rt.status)}

Failed(c) == [c EXCEPT !.err = TRUE]

\* a confirmation that leaves the confirmed customer in pending_updates
saveConfirmedKeepsPending(c, db, userID) ==
    LET rt == c.rt
        customerID == rt.focus
        data == PendOf(rt, customerID)
        customer == GetCustomer(c.custs, customerID)
        followRecord ==
            [buildFollowRecordFromCollectedData(customer, data) EXCEPT
                !.time = getFirstFocusTimeForCustomer(db.ds, rt.sid, customerID),
                !.user = userID, !.sid = rt.sid, !.by = "confirm"]
    IN  IF customerID = Nil THEN {Failed(c)}
        ELSE IF DOMAIN data = {} THEN {Failed(c)}
        ELSE IF customer.id = Nil THEN {Failed(c)}
        ELSE recalculateStates(
                 [c EXCEPT !.frs = Append(@, followRecord),
                           !.rt = [rt EXCEPT !.focus = Nil,
                                             !.mentioned = Nil,
                                             !.state = StateCustomerName]],
                 db)

saveConfirmedCustomerAndTransition(c, db, userID) ==
    LET rt == c.rt
        customerID == rt.focus
        data == PendOf(rt, customerID)
        customer == GetCustomer(c.custs, customerID)
        followRecord ==
            [buildFollowRecordFromCollectedData(customer, data) EXCEPT
                !.time = getFirstFocusTimeForCustomer(db.ds, rt.sid, customerID),
                !.user = userID, !.sid = rt.sid, !.by = "confirm"]
    IN  IF customerID = Nil THEN {Failed(c)}
        ELSE IF DOMAIN data = {} THEN {Failed(c)}
        ELSE IF customer.id = Nil THEN {Failed(c)}
        ELSE recalculateStates(
                 [c EXCEPT !.frs = Append(@, followRecord),
                           !.rt = [rt EXCEPT !.pend = MapDel(@, customerID),
                                             !.focus = Nil,
                                             !.mentioned = Nil,
                                             !.state = StateCustomerName]],
                 db)

\* the pairs <<context, customer id>> findOrCreateCustomer can return:
\* GetCustomerByName takes the first row the query yields, CreateCustomer
\* inserts a row with a fresh uuid
findOrCreateCustomer(c, name) ==
    LET found == {x \in c.custs : x.name = name}
    IN  IF found # {} THEN {<<c, x.id>> : x \in found}
        ELSE {<<[c EXCEPT !.custs = @ \cup {Customer(id, name)},
                          !.wrote = @ \cup {id},
                          !.free = @ \ {id}], id>> : id \in c.free}

\* one iteration of the loop over semanticResult.CustomerRefs
\* the loop body without its CONFIRMING branch
ApplyRefAnyStage(c, item, focusCustomerName) ==
    IF item.name = Empty
    THEN IF c.rt.focus # Nil /\ DOMAIN item.fu # {}
         THEN processFieldUpdates(c, item.fu) ELSE {c}
    ELSE IF item.name = focusCustomerName
    THEN processFieldUpdates(c, item.fu)
    ELSE UNION {processFieldUpdates(
                    [p[1] EXCEPT !.rt.mentioned = p[2], !.rt.focus = p[2]], item.fu) :
                p \in findOrCreateCustomer(c, item.name)}

ApplyRef(c, item, focusCustomerName) ==
    IF c.rt.status = StatusConfirming
    THEN IF c.rt.focus # Nil /\ DOMAIN item.fu # {}
         THEN processFieldUpdates(c, item.fu) ELSE {c}
    ELSE IF item.name = Empty
    THEN IF c.rt.focus # Nil /\ DOMAIN item.fu # {}
         THEN processFieldUpdates(c, item.fu) ELSE {c}
    ELSE IF item.name = focusCustomerName
    THEN processFieldUpdates(c, item.fu)
    ELSE UNION {processFieldUpdates(
                    [p[1] EXCEPT !.rt.mentioned = p[2], !.rt.focus = p[2]], item.fu) :
                p \in findOrCreateCustomer(c, item.name)}

RECURSIVE ApplyRefs(_, _, _, _)
ApplyRefs(cs, refs, i, focusCustomerName) ==
    IF i > Len(refs) THEN cs
    ELSE ApplyRefs(UNION {ApplyRef(c, refs[i], focusCustomerName) : c \in cs},
                   refs, i + 1, focusCustomerName)

\* a nil *SemanticAnalysisResult
NoSemantic == [ok |-> FALSE, rel |-> Empty, refs |-> <<>>]

\* ans holds what the language model would answer in this turn: follow
\* (IsCustomerFollowRelated), confirm (IsUserConfirmation), nomore
\* (IsUserNoMoreCustomers), sem (SemanticAnalysis), and fail, the calls
\* that fail in this turn.  A call of the client returns its value and
\* its error: the zero value with the error when it fails.
\* a client that returns the model's answer together with the error
ClassifyKeepsValue(ans, call, value) == [val |-> value, err |-> call \in ans.fail]

Classify(ans, call, value) ==
    [val |-> value /\ call \notin ans.fail, err |-> call \in ans.fail]

IsCustomerFollowRelated(ans) == Classify(ans, "follow", ans.follow)
IsUserConfirmation(ans) == Classify(ans, "confirm", ans.confirm)
IsUserNoMoreCustomers(ans) == Classify(ans, "nomore", ans.nomore)

SemanticAnalysis(ans) ==
    [val |-> IF "sem" \in ans.fail THEN NoSemantic ELSE ans.sem,
     err |-> "sem" \in ans.fail]

\* SummarizeCustomerInfo and GenerateDialogue return a text or "" and an error
SummarizeCustomerInfo(ans) ==
    [val |-> IF "summary" \in ans.fail THEN Empty ELSE "summary",
     err |-> "summary" \in ans.fail]

GenerateDialogue(ans, stage) ==
    IF stage = StatusAskingOtherCustomers
    THEN [val |-> "askingOtherCustomers", err |-> FALSE]
    ELSE IF stage \notin {StatusCollecting, StatusConfirming}
    THEN [val |-> Empty, err |-> TRUE]
    ELSE [val |-> IF "dialogue" \in ans.fail THEN Empty ELSE "dialogue",
          err |-> "dialogue" \in ans.fail]

ShouldCallSemanticAnalysis(status, ans) ==
    IF ~ IsCollectionStatus(status) THEN FALSE
    ELSE LET isCustomerFollowRelated == IsCustomerFollowRelated(ans)
         IN  IF isCustomerFollowRelated.err THEN FALSE
             ELSE isCustomerFollowRelated.val

\* generateReply: fixed texts in OUTPUTTING and ASKING_OTHER_CUSTOMERS, the
\* dialogue model otherwise (the summary's error is discarded)
generateReply(rt, ans) ==
    IF rt.status = StatusOutputting THEN [val |-> "outputtingConfirm", err |-> FALSE]
    ELSE IF rt.status = StatusAskingOtherCustomers
    THEN [val |-> "askingOtherCustomers", err |-> FALSE]
    ELSE GenerateDialogue(ans, rt.status)

\* the reply ProcessTurn returns for a turn it completes
ReplyOf(rt, ans) ==
    LET r == generateReply(rt, ans)
    IN  IF r.err THEN "sorry" ELSE r.val

\* variant: a no-more utterance ends the collection in every stage
processNoMoreAnyStage(c0, db, semanticResult, ans, userID) ==
    LET runtime == c0.rt
        c == [c0 EXCEPT !.rt = ensureFocusWhenPending(runtime, db.ds)]
        focusC == GetCustomer(c.custs, c.rt.focus)
        focusCustomerName == IF focusC.id # Nil THEN focusC.name ELSE Empty
        withRel == IF ~ semanticResult.ok THEN c
                   ELSE [c EXCEPT !.rt.rel = semanticResult.rel]
        applied == IF /\ semanticResult.ok
                      /\ semanticResult.rel = SemanticStrong
                      /\ Len(semanticResult.refs) > 0
                   THEN ApplyRefs({withRel}, semanticResult.refs, 1, focusCustomerName)
                   ELSE {withRel}
        confirmed == IsUserConfirmation(ans)
        noMore == IsUserNoMoreCustomers(ans)
    IN  IF runtime.status = StatusConfirming /\ ~ confirmed.err /\ confirmed.val
        THEN saveConfirmedCustomerAndTransition(c, db, userID)
        ELSE IF ~ noMore.err /\ noMore.val
        THEN {[c EXCEPT !.rt.status = StatusOutputting]}
        ELSE UNION {recalculateStates(x, db) : x \in applied}

\* variant: a confirmation is acted on in every stage
processConfirmingAnyStage(c0, db, semanticResult, ans, userID) ==
    LET runtime == c0.rt
        c == [c0 EXCEPT !.rt = ensureFocusWhenPending(runtime, db.ds)]
        focusC == GetCustomer(c.custs, c.rt.focus)
        focusCustomerName == IF focusC.id # Nil THEN focusC.name ELSE Empty
        withRel == IF ~ semanticResult.ok THEN c
                   ELSE [c EXCEPT !.rt.rel = semanticResult.rel]
        applied == IF /\ semanticResult.ok
                      /\ semanticResult.rel = SemanticStrong
                      /\ Len(semanticResult.refs) > 0
                   THEN ApplyRefs({withRel}, semanticResult.refs, 1, focusCustomerName)
                   ELSE {withRel}
        confirmed == IsUserConfirmation(ans)
        noMore == IsUserNoMoreCustomers(ans)
    IN  IF ~ confirmed.err /\ confirmed.val
        THEN saveConfirmedCustomerAndTransition(c, db, userID)
        ELSE IF runtime.status = StatusAskingOtherCustomers /\ ~ noMore.err /\ noMore.val
        THEN {[c EXCEPT !.rt.status = StatusOutputting]}
        ELSE UNION {recalculateStates(x, db) : x \in applied}

processWithRuleEngine(c0, db, semanticResult, ans, userID) ==
    LET runtime == c0.rt
        c == [c0 EXCEPT !.rt = ensureFocusWhenPending(runtime, db.ds)]
        focusC == GetCustomer(c.custs, c.rt.focus)
        focusCustomerName == IF focusC.id # Nil THEN focusC.name ELSE Empty
        withRel == IF ~ semanticResult.ok THEN c
                   ELSE [c EXCEPT !.rt.rel = semanticResult.rel]
        applied == IF /\ semanticResult.ok
                      /\ semanticResult.rel = SemanticStrong
                      /\ Len(semanticResult.refs) > 0
                   THEN ApplyRefs({withRel}, semanticResult.refs, 1, focusCustomerName)
                   ELSE {withRel}
        confirmed == IsUserConfirmation(ans)
        noMore == IsUserNoMoreCustomers(ans)
    IN  IF runtime.status = StatusConfirming /\ ~ confirmed.err /\ confirmed.val
        THEN saveConfirmedCustomerAndTransition(c, db, userID)
        ELSE IF runtime.status = StatusAskingOtherCustomers /\ ~ noMore.err /\ noMore.val
        THEN {[c EXCEPT !.rt.status = StatusOutputting]}
        ELSE UNION {recalculateStates(x, db) : x \in applied}

(***************************************************************************)
(* Runtime snapshot: saveRuntimeSnapshot writes it, loadLatestRuntime      *)
(* reads it back.  RuntimeState.PendingUpdates is tagged omitempty, so the *)
(* JSON of the snapshot has the key only for a non-empty map.              *)
(***************************************************************************)
MarshalPending(pend) == [present |-> DOMAIN pend # {}, val |-> pend]

\* orchestrator loadPendingUpdatesFromSnapshot; the snapshots the service
\* writes are all of the per-customer format
loadPendingUpdatesFromSnapshot(snap) ==
    IF ~ snap.pend.present THEN EmptyMap
    ELSE IF DOMAIN snap.pend.val # {} THEN snap.pend.val
    ELSE EmptyMap

ZeroRuntime(sessionID) ==
    [sid |-> sessionID, idx |-> 0, state |-> StateCustomerName,
     status |-> StatusCollecting, focus |-> Nil, mentioned |-> Nil,
     rel |-> Empty, first |-> FALSE, pend |-> EmptyMap, reconf |-> FALSE]

loadLatestRuntime(ds, sessionID) ==
    IF SessionDialogs(ds, sessionID) = {} THEN ZeroRuntime(sessionID)
    ELSE LET dialog == GetLatestDialog(ds, sessionID)
         IN  [ZeroRuntime(sessionID) EXCEPT
                 !.idx = dialog.idx,
                 !.state = dialog.snap.state,
                 !.status = dialog.snap.status,
                 !.focus = dialog.snap.focus,
                 !.pend = loadPendingUpdatesFromSnapshot(dialog.snap),
                 !.reconf = dialog.snap.reconf]

\* the dialogs row saveRuntimeSnapshot inserts; turn is the number of the
\* handler's turn (history, no column)
saveRuntimeSnapshot(rt, turn) ==
    [sid |-> rt.sid, idx |-> rt.idx, state |-> rt.state, status |-> rt.status,
     focus |-> rt.focus, first |-> rt.first, rel |-> rt.rel, pend |-> rt.pend,
     snap |-> [focus |-> rt.focus, state |-> rt.state, status |-> rt.status,
               pend |-> MarshalPending(rt.pend), reconf |-> rt.reconf],
     turn |-> turn]

(***************************************************************************)
(* Sessions.                                                               *)
(***************************************************************************)
Session(id, user, status) == [id |-> id, user |-> user, status |-> status, ended |-> FALSE]

\* a query that finds no session
NoActiveSessions(ss, userID) == {}

\* GetActiveSession: status != 'EXIT' AND ended_at IS NULL
\* ORDER BY created_at DESC LIMIT 1 (identifiers grow with creation)
ActiveSessions(ss, userID) ==
    {x \in ss : x.user = userID /\ x.status # StatusExit /\ ~ x.ended}

GetActiveSession(ss, userID) ==
    CHOOSE x \in ActiveSessions(ss, userID) :
        \A y \in ActiveSessions(ss, userID) : y.id <= x.id

\* UpdateSession: UPDATE sessions SET status, ended_at WHERE id (no row, no error)
UpdateSession(ss, id, status, ended) ==
    {IF x.id = id THEN [x EXCEPT !.status = status, !.ended = ended] ELSE x : x \in ss}

(***************************************************************************)
(* ProcessTurn: the body of the transaction up to SubmitTask.  The result  *)
(* is the set of transaction records the body can end with:                *)
(*   c       the context (runtime, customers written, follow records),     *)
(*   err     the body returns an error (rollback),                         *)
(*   exit    the session it ends (OUTPUTTING short-circuit), 0 for none,   *)
(*   create  it inserts the session row c.rt.sid,                          *)
(*   row     it inserts a dialogs row (not when it answers "ended"),       *)
(*   submit  it calls SubmitTask and updates the session to OUTPUTTING,     *)
(*   queued  SubmitTask returned nil (set when the call is made),          *)
(*   stage   the stage the turn loaded, reply the reply it returns,        *)
(*   said    what the classifiers return for the utterance of the turn.    *)
(***************************************************************************)
NewContext(rt, custs, free) ==
    [rt |-> rt, custs |-> custs, wrote |-> {}, free |-> free, frs |-> <<>>, err |-> FALSE]

NoTx ==
    [c |-> NewContext(ZeroRuntime(0), {}, {}), err |-> FALSE, exit |-> 0,
     create |-> FALSE, row |-> FALSE, submit |-> FALSE, queued |-> FALSE,
     stage |-> Empty, reply |-> Empty,
     said |-> [follow |-> FALSE, confirm |-> FALSE, nomore |-> FALSE]]

ProcessTurn(db, userID, ans, free, newSid) ==
    LET hasActive == ActiveSessions(db.ss, userID) # {}
        found == GetActiveSession(db.ss, userID)
        outputting == hasActive /\ found.status = StatusOutputting
        create == ~ hasActive \/ outputting
        sid == IF create THEN newSid ELSE found.id
        \* the transaction sees its own session row, no dialogs of a new session
        runtime == [loadLatestRuntime(db.ds, sid) EXCEPT !.idx = @ + 1]
        semanticResult == IF ShouldCallSemanticAnalysis(runtime.status, ans)
                          THEN SemanticAnalysis(ans).val ELSE NoSemantic
        results == processWithRuleEngine(NewContext(runtime, db.custs, free),
                                         db, semanticResult, ans, userID)
        said == [follow |-> IsCustomerFollowRelated(ans).val,
                 confirm |-> IsUserConfirmation(ans).val,
                 nomore |-> IsUserNoMoreCustomers(ans).val]
    IN  IF outputting /\ ~ IsCustomerFollowRelated(ans).val
        THEN {[NoTx EXCEPT !.stage = StatusOutputting, !.reply = "outputtingEnded",
                           !.said = said]}
        ELSE {[c |-> c, err |-> c.err,
               exit |-> IF outputting THEN found.id ELSE 0,
               create |-> create, row |-> ~ c.err,
               submit |-> ~ c.err /\ c.rt.status = StatusOutputting,
               queued |-> FALSE,
               stage |-> runtime.status, said |-> said,
               reply |-> IF c.err THEN Empty ELSE ReplyOf(c.rt, ans)] : c \in results}

(***************************************************************************)
(* State.                                                                  *)
(***************************************************************************)
VARIABLES
    sessions,        \* committed rows of table sessions
    dialogs,         \* committed rows of table dialogs
    customers,       \* committed rows of table customers
    followRecords,   \* committed rows of follow_records, in insertion order
    nextSid,         \* the next session identifier uuid.New() yields
    userLocks,       \* Server.userLocks: user -> mutex (NoLock when absent)
    held,            \* the mutexes that are locked
    hs,              \* the gateway's handler goroutines
    processedEvents, \* the message ids of processedEventsCache
    taskQueue,       \* OutputWorker.taskQueue
    ws,              \* the worker goroutines
    msgs,            \* the messages sent so far: msgs[m] is the sender of m
    delivered,       \* deliveries made by the gateway
    faults,          \* infrastructure failures so far
    stop,            \* OutputWorker.Stop: stopCh open or closed, Stop returned; with
                     \* the turns whose tasks were accepted and not yet completed
                     \* when Stop was called (history)
    eng,             \* a function called on its own: the function, its arguments
                     \* and the value it returned (empty before the call)
    turnLog          \* history: the turns in the order of mu.Lock(), each
                     \* with its message, whether ProcessTurn began, its
                     \* session and turn_index, whether its transaction
                     \* committed, whether that wrote a row

vars ==
    <<sessions, dialogs, customers, followRecords, nextSid, userLocks, held, hs,
      processedEvents, taskQueue, ws, msgs, delivered, faults, stop, eng, turnLog>>

dbVars == <<sessions, dialogs, customers, followRecords>>

Handlers == {"h1", "h2"}
\* scaled-down worker pool (workerSize is 5 in NewServer)
Workers == {"w1"}

\* a mutex is named by the user it was made for and the goroutine that made it
NoLock == <<>>
NewLock(userID, h) == <<userID, h>>

NoTask == [sid |-> 0, user |-> Nil, turn |-> 0]

IdleHandler ==
    [pc |-> "idle", msg |-> 0, user |-> Nil, mu |-> NoLock, turn |-> 0,
     tx |-> NoTx, ret |-> Nil]

\* no call of the rule engine on its own
NoCall ==
    [op |-> "none", customer |-> NoCustomer, followRecord |-> NoRecord,
     customerStates |-> EmptyMap, currentFocus |-> Nil, mentionedCustomer |-> Nil,
     status |-> Empty, out |-> {}]

Init ==
    /\ eng = NoCall
    /\ sessions = {}
    /\ dialogs = {}
    /\ customers = {}
    /\ followRecords = <<>>
    /\ nextSid = 1
    /\ userLocks = [u \in Users |-> NoLock]
    /\ held = {}
    /\ hs = [h \in Handlers |-> IdleHandler]
    /\ processedEvents = {}
    /\ taskQueue = <<>>
    /\ ws = [w \in Workers |-> [pc |-> "idle", task |-> NoTask]]
    /\ msgs = <<>>
    /\ delivered = 0
    /\ faults = 0
    /\ stop = [st |-> "running", before |-> {}]
    /\ turnLog = <<>>

DB == [ss |-> sessions, ds |-> dialogs, custs |-> customers, frs |-> followRecords]

(***************************************************************************)
(* Gateway (package feishu) and Server.HandleMessage.                      *)
(***************************************************************************)
isProcessed(id) == id \in processedEvents

\* OnP2MessageReceiveV1 up to the call of HandleMessage: message m of user u
\* is delivered, a repeat of an earlier message or the next new one
Receive(h, m, u) ==
    /\ hs[h].pc = "idle"
    /\ \/ m \in 1..Len(msgs) /\ msgs[m] = u /\ msgs' = msgs
       \/ m = Len(msgs) + 1 /\ msgs' = Append(msgs, u)
    /\ delivered' = delivered + 1
    /\ hs' = IF isProcessed(m) THEN hs
             ELSE [hs EXCEPT ![h] = [IdleHandler EXCEPT
                                        !.pc = "load", !.msg = m, !.user = u]]
    /\ UNCHANGED <<stop, eng, dbVars, nextSid, userLocks, held, processedEvents, taskQueue,
                   ws, faults, turnLog>>

\* getUserLock, first half: userLocks.Load
GetUserLockLoad(h) ==
    /\ hs[h].pc = "load"
    /\ hs' = IF userLocks[hs[h].user] # NoLock
             THEN [hs EXCEPT ![h].mu = userLocks[hs[h].user], ![h].pc = "lock"]
             ELSE [hs EXCEPT ![h].pc = "store"]
    /\ UNCHANGED <<stop, eng, dbVars, nextSid, userLocks, held, processedEvents, taskQueue,
                   ws, msgs, delivered, faults, turnLog>>

\* a Store in place of LoadOrStore: the new mutex replaces the one present
StoreAlways(locks, userID, newLock) == newLock

\* the mutex LoadOrStore leaves in the map and returns
LoadOrStore(locks, userID, newLock) ==
    IF locks[userID] # NoLock THEN locks[userID] ELSE newLock

\* getUserLock, second half: userLocks.LoadOrStore with a new mutex
GetUserLockStore(h) ==
    LET actual == LoadOrStore(userLocks, hs[h].user, NewLock(hs[h].user, h))
    IN  /\ hs[h].pc = "store"
        /\ userLocks' = [userLocks EXCEPT ![hs[h].user] = actual]
        /\ hs' = [hs EXCEPT ![h].mu = actual, ![h].pc = "lock"]
        /\ UNCHANGED <<stop, eng, dbVars, nextSid, held, processedEvents, taskQueue, ws,
                       msgs, delivered, faults, turnLog>>

\* the history entry of a turn that has the mutex
NewTurn(msg) ==
    [msg |-> msg, began |-> FALSE, sid |-> 0, idx |-> 0, committed |-> FALSE,
     row |-> FALSE, stage |-> Empty, fail |-> {}, reply |-> Empty, ret |-> Empty]

\* mu.Lock()
Lock(h) ==
    /\ hs[h].pc = "lock"
    /\ hs[h].mu \notin held
    /\ held' = held \cup {hs[h].mu}
    /\ turnLog' = Append(turnLog, NewTurn(hs[h].msg))
    /\ hs' = [hs EXCEPT ![h].pc = "turn", ![h].turn = Len(turnLog) + 1]
    /\ UNCHANGED <<stop, eng, dbVars, nextSid, userLocks, processedEvents, taskQueue, ws,
                   msgs, delivered, faults>>

\* the return of HandleMessage: SendMessage with its result sendOk, then
\* the deferred mu.Unlock()
Reply(h, sendOk) ==
    [hs EXCEPT ![h].pc = "mark", ![h].tx = NoTx,
               ![h].ret = IF sendOk THEN "nil" ELSE "error"]

\* ensureUserExists fails: the system-error message is sent
EnsureUserFails(h, sendOk, maxFaults) ==
    /\ hs[h].pc = "turn"
    /\ faults + (IF sendOk THEN 1 ELSE 2) <= maxFaults
    /\ faults' = faults + (IF sendOk THEN 1 ELSE 2)
    /\ hs' = Reply(h, sendOk)
    /\ held' = held \ {hs[h].mu}
    /\ UNCHANGED <<stop, eng, dbVars, nextSid, userLocks, processedEvents, taskQueue, ws,
                   msgs, delivered, turnLog>>

\* OnP2MessageReceiveV1 after HandleMessage returned: markProcessed on nil
Return(h) ==
    /\ hs[h].pc = "mark"
    /\ processedEvents' = IF hs[h].ret = "nil"
                          THEN processedEvents \cup {hs[h].msg}
                          ELSE processedEvents
    /\ hs' = [hs EXCEPT ![h] = IdleHandler]
    /\ UNCHANGED <<stop, eng, dbVars, nextSid, userLocks, held, taskQueue, ws, msgs,
                   delivered, faults, turnLog>>

(***************************************************************************)
(* The ProcessTurn transaction.                                            *)
(***************************************************************************)
\* the identifiers uuid.New() can yield for a customer: those of no row,
\* committed or written by a running transaction
FreeCustIds ==
    CustIds \ ({x.id : x \in customers}
               \cup UNION {{x.id : x \in hs[g].tx.c.custs} : g \in Handlers})

\* a send that always succeeds, as on a channel without capacity limit
SubmitAlways(queue, sessionID, userID, turn) ==
    [queue |-> Append(queue, [sid |-> sessionID, user |-> userID, turn |-> turn]),
     err |-> FALSE]

\* SubmitTask: select with a default case, a send on the buffered channel
\* that succeeds at once or the queue-full error; turn is the number of the
\* submitting turn (history, no field of OutputTask)
SubmitTask(queue, sessionID, userID, turn) ==
    IF Len(queue) < QueueCap
    THEN [queue |-> Append(queue, [sid |-> sessionID, user |-> userID, turn |-> turn]),
          err |-> FALSE]
    ELSE [queue |-> queue, err |-> TRUE]

\* WithTx runs the body: its reads see the committed rows, its writes stay
\* in the transaction, SubmitTask takes effect at once
TurnBegin(h, ans) ==
    /\ hs[h].pc = "turn"
    /\ \E t \in ProcessTurn(DB, hs[h].user, ans, FreeCustIds, nextSid) :
          /\ t.create => nextSid <= MaxSessions
          /\ nextSid' = IF t.create THEN nextSid + 1 ELSE nextSid
          /\ LET sent == SubmitTask(taskQueue, t.c.rt.sid, hs[h].user, hs[h].turn)
             IN  /\ taskQueue' = IF t.submit THEN sent.queue ELSE taskQueue
                 /\ hs' = [hs EXCEPT ![h].pc = "commit",
                                      ![h].tx = [t EXCEPT !.queued = t.submit /\ ~ sent.err]]
          /\ turnLog' = [turnLog EXCEPT ![hs[h].turn].began = TRUE,
                                         ![hs[h].turn].sid = t.c.rt.sid,
                                         ![hs[h].turn].idx = t.c.rt.idx,
                                         ![hs[h].turn].stage = t.stage,
                                         ![hs[h].turn].fail = ans.fail]
    /\ UNCHANGED <<stop, eng, dbVars, userLocks, held, processedEvents, ws, msgs, delivered,
                   faults>>

\* the constraints of schema.sql the writes of the transaction meet:
\* dialogs.session_id references sessions(id), UNIQUE (session_id, turn_index)
CanCommit(t) ==
    /\ ~ t.err
    /\ t.row =>
          /\ t.create \/ \E x \in sessions : x.id = t.c.rt.sid
          /\ ~ \E d \in dialogs : d.sid = t.c.rt.sid /\ d.idx = t.c.rt.idx

\* the writes to sessions without the UpdateSession that ends the
\* OUTPUTTING session
SessionsKeepOld(t, userID) ==
    LET s2 == IF t.create THEN sessions \cup {Session(t.c.rt.sid, userID, StatusCollecting)}
              ELSE sessions
    IN  IF t.submit THEN UpdateSession(s2, t.c.rt.sid, StatusOutputting, FALSE) ELSE s2

SessionsAfter(t, userID) ==
    LET s1 == IF t.exit # 0 THEN UpdateSession(sessions, t.exit, StatusExit, TRUE)
              ELSE sessions
        s2 == IF t.create THEN s1 \cup {Session(t.c.rt.sid, userID, StatusCollecting)}
              ELSE s1
    IN  IF t.submit THEN UpdateSession(s2, t.c.rt.sid, StatusOutputting, FALSE) ELSE s2

CustomersAfter(t) ==
    {x \in customers : x.id \notin t.c.wrote}
        \cup {x \in t.c.custs : x.id \in t.c.wrote}

\* the body ends: tx.Commit() when it returned nil and the constraints
\* hold, tx.Rollback() otherwise; then the reply is sent and the user's
\* mutex released
TurnCommit(h, sendOk, maxFaults) ==
    LET t == hs[h].tx
    IN  /\ hs[h].pc = "commit"
        /\ faults + (IF sendOk THEN 0 ELSE 1) <= maxFaults
        /\ faults' = faults + (IF sendOk THEN 0 ELSE 1)
        /\ IF CanCommit(t)
           THEN /\ sessions' = SessionsAfter(t, hs[h].user)
                /\ dialogs' = IF t.row
                              THEN dialogs \cup {saveRuntimeSnapshot(t.c.rt, hs[h].turn)}
                              ELSE dialogs
                /\ customers' = CustomersAfter(t)
                /\ followRecords' = followRecords \o t.c.frs
                /\ turnLog' = [turnLog EXCEPT ![hs[h].turn].committed = TRUE,
                                               ![hs[h].turn].row = t.row,
                                               ![hs[h].turn].reply = t.reply,
                                               ![hs[h].turn].ret = "nil"]
           ELSE /\ UNCHANGED dbVars
                /\ turnLog' = [turnLog EXCEPT ![hs[h].turn].ret =
                                  IF t.err THEN "rule engine" ELSE "database"]
        /\ hs' = Reply(h, sendOk)
        /\ held' = held \ {hs[h].mu}
        /\ UNCHANGED <<stop, eng, nextSid, userLocks, processedEvents, taskQueue, ws, msgs,
                       delivered>>

\* a statement after SubmitTask (UpdateSession, CreateDialog) or the commit
\* fails: the transaction is rolled back, the process-error reply is sent
TurnAbort(h, maxFaults) ==
    /\ hs[h].pc = "commit"
    /\ ~ hs[h].tx.err
    /\ faults < maxFaults
    /\ faults' = faults + 1
    /\ hs' = Reply(h, TRUE)
    /\ held' = held \ {hs[h].mu}
    /\ turnLog' = [turnLog EXCEPT ![hs[h].turn].ret = "database"]
    /\ UNCHANGED <<stop, eng, dbVars, nextSid, userLocks, processedEvents, taskQueue, ws,
                   msgs, delivered>>

(***************************************************************************)
(* Output worker (package worker).  processTask passes ctx, not txCtx, to  *)
(* every repository call, so each statement is committed on its own.       *)
(* NormalizeEntities and mergeCustomers write nothing: processMergeResults *)
(* scans the mention id into a uuid.UUID with %s, which fails, so every    *)
(* merge has the nil source and mergeCustomers finds no customer for it.   *)
(***************************************************************************)
\* the customers outputFollowRecords calls CreateFollowRecord for
ToOutput(db, task) ==
    IF SessionDialogs(db.ds, task.sid) = {} THEN {}
    ELSE LET latestDialog == GetLatestDialog(db.ds, task.sid)
             pendingUpdates == loadPendingUpdatesFromSnapshot(latestDialog.snap)
         IN  {k \in DOMAIN pendingUpdates :
                 /\ DOMAIN pendingUpdates[k] # {}
                 /\ GetCustomer(db.custs, k).id # Nil}

\* the follow records outputFollowRecords inserts, given the customers whose
\* CreateFollowRecord fails
OutputRecords(db, task, failing) ==
    IF SessionDialogs(db.ds, task.sid) = {} THEN <<>>
    ELSE LET latestDialog == GetLatestDialog(db.ds, task.sid)
             pendingUpdates == loadPendingUpdatesFromSnapshot(latestDialog.snap)
             todo == ToOutput(db, task) \ failing
             firstRows(k) == {d \in SessionDialogs(db.ds, task.sid) :
                                 d.focus = k /\ d.first}
             \* firstFocusTimes keeps the last first-focus row of a customer
             followTime(k) ==
                 IF firstRows(k) = {} THEN TimeNow
                 ELSE TimeOfDialog((CHOOSE d \in firstRows(k) :
                                       \A e \in firstRows(k) : e.idx <= d.idx).idx)
             rec(k) ==
                 [buildFollowRecordFromCollectedData(GetCustomer(db.custs, k),
                                                     pendingUpdates[k])
                    EXCEPT !.time = followTime(k), !.user = task.user,
                           !.sid = task.sid, !.by = "worker"]
             RECURSIVE Emit(_)
             Emit(ks) == IF ks = {} THEN <<>>
                         ELSE LET k == CHOOSE x \in ks :
                                          \A y \in ks : CustRank(x) <= CustRank(y)
                              IN  <<rec(k)>> \o Emit(ks \ {k})
         IN  Emit(todo)

\* worker: a task is received and processTask runs up to the end of
\* outputFollowRecords
WorkerStart(w, failing, maxFaults) ==
    /\ ws[w].pc = "idle"
    /\ taskQueue # <<>>
    /\ failing \subseteq ToOutput(DB, Head(taskQueue))
    /\ faults + Cardinality(failing) <= maxFaults
    /\ faults' = faults + Cardinality(failing)
    /\ taskQueue' = Tail(taskQueue)
    /\ followRecords' = followRecords \o OutputRecords(DB, Head(taskQueue), failing)
    /\ ws' = [ws EXCEPT ![w] = [pc |-> "dialogs", task |-> Head(taskQueue)]]
    /\ UNCHANGED <<stop, eng, sessions, dialogs, customers, nextSid, userLocks, held, hs,
                   processedEvents, msgs, delivered, turnLog>>

\* outputFollowRecords returns an error (GetLatestDialog or
\* GetDialogsBySession fails): processTask ends without steps 3 and 4
WorkerStartFails(w, maxFaults) ==
    /\ ws[w].pc = "idle"
    /\ taskQueue # <<>>
    /\ faults < maxFaults
    /\ faults' = faults + 1
    /\ taskQueue' = Tail(taskQueue)
    /\ UNCHANGED <<stop, eng, dbVars, nextSid, userLocks, held, hs, processedEvents, ws,
                   msgs, delivered, turnLog>>

\* step 3: DeleteDialogsBySession; a failure is logged
WorkerDeleteDialogs(w, ok, maxFaults) ==
    /\ ws[w].pc = "dialogs"
    /\ faults + (IF ok THEN 0 ELSE 1) <= maxFaults
    /\ faults' = faults + (IF ok THEN 0 ELSE 1)
    /\ dialogs' = IF ok THEN {d \in dialogs : d.sid # ws[w].task.sid} ELSE dialogs
    /\ ws' = [ws EXCEPT ![w].pc = "session"]
    /\ UNCHANGED <<stop, eng, sessions, customers, followRecords, nextSid, userLocks, held,
                   hs, processedEvents, taskQueue, msgs, delivered, turnLog>>

\* step 4 without the fallback
DeleteSessionOnly(w, ok, fallbackOk, maxFaults) ==
    LET sid == ws[w].task.sid
        deleted == ok /\ SessionDialogs(dialogs, sid) = {}
        cost == (IF ok THEN 0 ELSE 1) + (IF fallbackOk THEN 0 ELSE 1)
    IN  /\ ws[w].pc = "session"
        /\ ~ fallbackOk => ~ deleted
        /\ faults + cost <= maxFaults
        /\ faults' = faults + cost
        /\ sessions' = IF deleted THEN {x \in sessions : x.id # sid} ELSE sessions
        /\ ws' = [ws EXCEPT ![w] = [pc |-> "idle", task |-> NoTask]]
        /\ UNCHANGED <<stop, eng, dialogs, customers, followRecords, nextSid, userLocks, held,
                       hs, processedEvents, taskQueue, msgs, delivered, turnLog>>

\* step 4: DeleteSession, which fails while dialogs rows reference the
\* session (or by a fault); then the fallback UpdateSession to EXIT, whose
\* error is discarded
WorkerDeleteSession(w, ok, fallbackOk, maxFaults) ==
    LET sid == ws[w].task.sid
        deleted == ok /\ SessionDialogs(dialogs, sid) = {}
        cost == (IF ok THEN 0 ELSE 1) + (IF fallbackOk THEN 0 ELSE 1)
    IN  /\ ws[w].pc = "session"
        /\ ~ fallbackOk => ~ deleted
        /\ faults + cost <= maxFaults
        /\ faults' = faults + cost
        /\ sessions' = IF deleted THEN {x \in sessions : x.id # sid}
                       ELSE IF fallbackOk
                       THEN UpdateSession(sessions, sid, StatusExit, TRUE)
                       ELSE sessions
        /\ ws' = [ws EXCEPT ![w] = [pc |-> "idle", task |-> NoTask]]
        /\ UNCHANGED <<stop, eng, dialogs, customers, followRecords, nextSid, userLocks, held,
                       hs, processedEvents, taskQueue, msgs, delivered, turnLog>>

\* Stop, first half: close(stopCh)
StopCall ==
    /\ stop.st = "running"
    /\ stop' = [st |-> "closed",
                before |-> {taskQueue[i].turn : i \in 1..Len(taskQueue)}
                              \cup {ws[w].task.turn : w \in {v \in Workers : ws[v].pc # "idle"}}]
    /\ UNCHANGED <<eng, dbVars, nextSid, userLocks, held, hs, processedEvents, taskQueue,
                   ws, msgs, delivered, faults, turnLog>>

\* worker: the select takes the case <-stopCh, which it can as soon as
\* stopCh is closed, whether or not a task is waiting; the goroutine returns
WorkerExit(w) ==
    /\ stop.st # "running"
    /\ ws[w].pc = "idle"
    /\ ws' = [ws EXCEPT ![w].pc = "exited"]
    /\ UNCHANGED <<eng, dbVars, nextSid, userLocks, held, hs, processedEvents, taskQueue,
                   msgs, delivered, faults, stop, turnLog>>

\* Stop, second half: wg.Wait() returns when every worker has returned
StopReturn ==
    /\ stop.st = "closed"
    /\ \A w \in Workers : ws[w].pc = "exited"
    /\ stop' = [stop EXCEPT !.st = "returned"]
    /\ UNCHANGED <<eng, dbVars, nextSid, userLocks, held, hs, processedEvents, taskQueue,
                   ws, msgs, delivered, faults, turnLog>>

(***************************************************************************)
(* What the language model answers for a message: the inputs of a turn.    *)
(***************************************************************************)
FieldsContent == [f \in {"follow_content"} |-> "x"]
FieldsMethod == [f \in {"follow_method"} |-> "y"]
FieldsAll ==
    [f \in {"follow_method", "follow_content", "follow_goal", "follow_result",
            "next_plan"} |-> "x"]

Ref(name, fu) == [name |-> name, fu |-> fu]
Strong(refs) == [ok |-> TRUE, rel |-> SemanticStrong, refs |-> refs]
Answer(follow, confirm, nomore, sem) ==
    [follow |-> follow, confirm |-> confirm, nomore |-> nomore, sem |-> sem,
     fail |-> {}]
\* the same answers in a turn in which these calls fail
Failing(ans, calls) == [ans EXCEPT !.fail = calls]

AnsChatter == Answer(FALSE, FALSE, FALSE, NoSemantic)
AnsConfirm == Answer(FALSE, TRUE, FALSE, NoSemantic)
AnsNoMore == Answer(FALSE, FALSE, TRUE, NoSemantic)
AnsReport(refs) == Answer(TRUE, FALSE, FALSE, Strong(refs))

Answers ==
    {AnsChatter, AnsConfirm, AnsNoMore,
     AnsReport(<<Ref("A", FieldsAll)>>),
     AnsReport(<<Ref("A", FieldsContent)>>),
     AnsReport(<<Ref("B", FieldsAll)>>),
     AnsReport(<<Ref(Empty, FieldsMethod)>>),
     AnsReport(<<Ref("A", EmptyMap), Ref("B", FieldsContent)>>)}

AnswersConc == {AnsChatter, AnsNoMore, AnsReport(<<Ref("A", FieldsContent)>>)}

(***************************************************************************)
(* Specifications.  Spec: one handler goroutine serving one user, all the  *)
(* answers, the worker and the failures.  SpecConc: two handler goroutines *)
(* and two users, with fewer answers.                                      *)
(***************************************************************************)
Step(H, U, A, maxMsgs, maxDeliveries, maxFaults) ==
    \/ \E h \in H, u \in U, m \in 1..maxMsgs :
          delivered < maxDeliveries /\ Receive(h, m, u)
    \/ \E h \in H : GetUserLockLoad(h)
    \/ \E h \in H : GetUserLockStore(h)
    \/ \E h \in H : Lock(h)
    \/ \E h \in H, sendOk \in BOOLEAN : EnsureUserFails(h, sendOk, maxFaults)
    \/ \E h \in H, ans \in A : TurnBegin(h, ans)
    \/ \E h \in H, sendOk \in BOOLEAN : TurnCommit(h, sendOk, maxFaults)
    \/ \E h \in H : TurnAbort(h, maxFaults)
    \/ \E h \in H : Return(h)
    \/ \E w \in Workers, failing \in SUBSET CustIds : WorkerStart(w, failing, maxFaults)
    \/ \E w \in Workers : WorkerStartFails(w, maxFaults)
    \/ \E w \in Workers, ok \in BOOLEAN : WorkerDeleteDialogs(w, ok, maxFaults)
    \/ \E w \in Workers, ok, fallbackOk \in BOOLEAN :
          WorkerDeleteSession(w, ok, fallbackOk, maxFaults)

Next == Step({"h1"}, {"u1"}, Answers, MaxMsgs, MaxDeliveries, MaxFaults)

Spec == Init /\ [][Next]_vars

\* SpecPair: two users, each with a session of its own, served one message
\* at a time without failures; every message is new.
AnswersPair ==
    {AnsChatter,
     AnsReport(<<Ref("A", FieldsContent)>>),
     AnsReport(<<Ref("B", FieldsAll)>>),
     AnsReport(<<Ref("A", FieldsContent), Ref("B", FieldsAll)>>)}

SentBy(u) == Cardinality({m \in 1..Len(msgs) : msgs[m] = u})

NextPair ==
    \/ \E u \in Users : SentBy(u) < MaxPairTurns /\ Receive("h1", Len(msgs) + 1, u)
    \/ GetUserLockLoad("h1")
    \/ GetUserLockStore("h1")
    \/ Lock("h1")
    \/ \E ans \in AnswersPair : TurnBegin("h1", ans)
    \/ TurnCommit("h1", TRUE, 0)
    \/ Return("h1")

SpecPair == Init /\ [][NextPair]_vars

NextConc == Step(Handlers, Users, AnswersConc, MaxConcMsgs, MaxConcDeliveries, MaxFaults)

SpecConc == Init /\ [][NextConc]_vars

\* SpecLLM: one handler and one user as in Spec; each call of the language
\* model can fail, alone or together with the others.
LLMCalls == {"follow", "confirm", "nomore", "sem", "summary", "dialogue"}

AnswersLLM ==
    {AnsChatter, AnsConfirm, AnsNoMore, AnsReport(<<Ref("A", FieldsAll)>>),
     Failing(AnsConfirm, {"confirm"}),
     Failing(AnsNoMore, {"nomore"}),
     Failing(AnsReport(<<Ref("A", FieldsAll)>>), {"follow"}),
     Failing(AnsReport(<<Ref("A", FieldsAll)>>), {"sem"}),
     Failing(AnsReport(<<Ref("A", FieldsAll)>>), {"summary", "dialogue"}),
     Failing(AnsChatter, LLMCalls)}

NextLLM == Step({"h1"}, {"u1"}, AnswersLLM, MaxLLMMsgs, MaxLLMMsgs, MaxFaults)

SpecLLM == Init /\ [][NextLLM]_vars

\* SpecWorker: one handler and one user, two customers reported in one
\* message, and room for a failure in the worker after a failed turn.
AnswersWorker ==
    {AnsChatter, AnsNoMore,
     AnsReport(<<Ref("A", FieldsContent), Ref("B", FieldsContent)>>)}

NextWorker ==
    Step({"h1"}, {"u1"}, AnswersWorker, MaxWorkerMsgs, MaxWorkerMsgs, MaxWorkerFaults)

SpecWorker == Init /\ [][NextWorker]_vars

\* SpecFair: SpecWorker with the worker pool started and not stopped, so
\* that the worker goroutines are scheduled: a worker that can receive a
\* task, or go on with the one it has, does.
WorkerStep ==
    \E w \in Workers :
        \/ \E failing \in SUBSET CustIds : WorkerStart(w, failing, MaxWorkerFaults)
        \/ WorkerStartFails(w, MaxWorkerFaults)
        \/ \E ok \in BOOLEAN : WorkerDeleteDialogs(w, ok, MaxWorkerFaults)
        \/ \E ok, fallbackOk \in BOOLEAN :
              WorkerDeleteSession(w, ok, fallbackOk, MaxWorkerFaults)

SpecFair == Init /\ [][NextWorker]_vars /\ WF_vars(WorkerStep)

\* SpecRefs: one user whose reports name one customer or two, in either
\* order, with a different field for each.
MultiRefs ==
    {<<Ref("A", FieldsContent), Ref("B", FieldsMethod)>>,
     <<Ref("B", FieldsMethod), Ref("A", FieldsContent)>>}

AnswersRefs ==
    {AnsNoMore, AnsReport(<<Ref("A", FieldsContent)>>)}
        \cup {AnsReport(refs) : refs \in MultiRefs}

NextRefs == Step({"h1"}, {"u1"}, AnswersRefs, MaxWorkerMsgs, MaxWorkerMsgs, MaxFaults)

SpecRefs == Init /\ [][NextRefs]_vars

\* SpecRisk: one user whose reports carry a risk, under the key risk or
\* the key risk_content, besides reports that complete customer A or not.
FieldsRisk(key) == [f \in {key} |-> "r"]

AnswersRisk ==
    {AnsNoMore, AnsConfirm,
     AnsReport(<<Ref("A", FieldsContent)>>),
     AnsReport(<<Ref("A", FieldsAll)>>),
     AnsReport(<<Ref(Empty, FieldsRisk("risk"))>>),
     AnsReport(<<Ref(Empty, FieldsRisk("risk_content"))>>)}

NextRisk == Step({"h1"}, {"u1"}, AnswersRisk, MaxWorkerMsgs, MaxWorkerMsgs, MaxFaults)

SpecRisk == Init /\ [][NextRisk]_vars

\* SpecAmend: one user who completes customer A, with or without a date the
\* follow-up took place, or customers A and B in one sentence, and in
\* CONFIRMING amends the report: a date that parses, one that does not, or
\* two fields in one sentence.
AnswersAmend ==
    {AnsConfirm, AnsNoMore,
     AnsReport(<<Ref("A", FieldsAll)>>),
     AnsReport(<<Ref("A", FieldsAll @@ [f \in {"follow_time"} |-> "2024-05-01"])>>),
     AnsReport(<<Ref("A", FieldsAll), Ref("B", FieldsAll)>>),
     AnsReport(<<Ref(Empty, [f \in {"follow_time"} |-> "2024-05-01"])>>),
     AnsReport(<<Ref(Empty, [f \in {"follow_time"} |-> "last week"])>>),
     AnsReport(<<Ref(Empty, [f \in {"follow_goal", "next_plan"} |-> "z"])>>)}

NextAmend == Step({"h1"}, {"u1"}, AnswersAmend, MaxWorkerMsgs, MaxWorkerMsgs, MaxFaults)

SpecAmend == Init /\ [][NextAmend]_vars

\* SpecEngine: the functions of the rule engine, each called once on
\* arguments drawn from all the values of their types over three customer
\* ids, the seven states, the five stages and the field values nil, "" and
\* a text.
FollowRecords ==
    {NoRecord} \cup
    {[NoRecord EXCEPT !.cust = "c1", !.name = "A",
                      !.follow_content = v[1], !.follow_goal = v[2],
                      !.follow_result = v[3], !.next_plan = v[4],
                      !.follow_method = v[5]] :
        v \in [1..5 -> {Nil, Empty, "x"}]}

CustomerStateMaps ==
    UNION {[ids -> {RecalcStateOrder[i] : i \in 1..Len(RecalcStateOrder)}] :
              ids \in SUBSET CustIds}

EngineCalls ==
    {[NoCall EXCEPT !.op = "DetermineState", !.customer = c, !.followRecord = fr] :
        c \in {NoCustomer, Customer("c1", "A")}, fr \in FollowRecords}
    \cup {[NoCall EXCEPT !.op = "DetermineStatus", !.customerStates = m] :
              m \in CustomerStateMaps}
    \cup {[NoCall EXCEPT !.op = "SelectFocusCustomer", !.customerStates = m,
                         !.currentFocus = x[1], !.mentionedCustomer = x[2],
                         !.status = x[3]] :
              m \in CustomerStateMaps,
              x \in (CustIds \cup {Nil}) \X (CustIds \cup {Nil}) \X
                        {StatusCollecting, StatusAskingOtherCustomers,
                         StatusConfirming, StatusOutputting, StatusExit}}

\* the functions called on their own: no message has arrived
InitCalls(calls) ==
    /\ eng \in calls
    /\ sessions = {} /\ dialogs = {} /\ customers = {} /\ followRecords = <<>>
    /\ nextSid = 1 /\ userLocks = [u \in Users |-> NoLock] /\ held = {}
    /\ hs = [h \in Handlers |-> IdleHandler] /\ processedEvents = {}
    /\ taskQueue = <<>> /\ ws = [w \in Workers |-> [pc |-> "idle", task |-> NoTask]]
    /\ msgs = <<>> /\ delivered = 0 /\ faults = 0
    /\ stop = [st |-> "running", before |-> {}] /\ turnLog = <<>>

InitEngine == InitCalls(EngineCalls)

\* the call returns one of results; out holds the value returned
Returns(op, results) ==
    /\ eng.op = op /\ eng.out = {}
    /\ \E r \in results : eng' = [eng EXCEPT !.out = {r}]
    /\ UNCHANGED <<dbVars, nextSid, userLocks, held, hs, processedEvents, taskQueue,
                   ws, msgs, delivered, faults, stop, turnLog>>

CallDetermineState ==
    Returns("DetermineState", {DetermineState(eng.customer, eng.followRecord)})

CallDetermineStatus ==
    Returns("DetermineStatus", {DetermineStatus(eng.customerStates)})

CallSelectFocusCustomer ==
    Returns("SelectFocusCustomer",
            SelectFocusCustomer(eng.currentFocus, eng.mentionedCustomer,
                                eng.customerStates, eng.status))

NextEngine == CallDetermineState \/ CallDetermineStatus \/ CallSelectFocusCustomer

SpecEngine == InitEngine /\ [][NextEngine]_vars

\* SpecSnapshot: the two loadPendingUpdatesFromSnapshot, of the orchestrator
\* and of the output worker, called on the pending_updates of a snapshot
\* and its focus_customer_id.  A JSON value is null, a string or an object;
\* "absent" is the RawMessage of a snapshot without the key.
JSON(k, s, m) == [k |-> k, s |-> s, m |-> m]

\* json.Unmarshal of raw into a map[string]map[string]interface{} (nested)
\* or a map[string]interface{}: null leaves the map nil without an error,
\* a value that is no object is an error, and so is, in the nested map, an
\* entry that is neither an object nor null.  A null entry is a nil inner
\* map or a nil interface.  On an error the callers drop the map.
Unmarshal(raw, nested) ==
    LET decode(v) == IF v.k = "null" THEN Null ELSE IF v.k = "string" THEN v.s ELSE v
        inner(v) == IF v.k = "object" THEN [f \in DOMAIN v.m |-> decode(v.m[f])]
                    ELSE EmptyMap
        fits(v) == nested => v.k \in {"object", "null"}
    IN  IF raw.k = "null" THEN [err |-> FALSE, val |-> EmptyMap]
        ELSE IF raw.k # "object" \/ \E c \in DOMAIN raw.m : ~ fits(raw.m[c])
        THEN [err |-> TRUE, val |-> EmptyMap]
        ELSE [err |-> FALSE,
              val |-> [c \in DOMAIN raw.m |->
                          IF nested THEN inner(raw.m[c]) ELSE decode(raw.m[c])]]

\* (o *TurnOrchestrator) loadPendingUpdatesFromSnapshot on any snapshot
TurnOrchestrator_loadPendingUpdatesFromSnapshot(raw, focus) ==
    IF raw.k \in {"absent", "null"} THEN EmptyMap
    ELSE LET newFormat == Unmarshal(raw, TRUE)
             flatFormat == Unmarshal(raw, FALSE)
         IN  IF ~ newFormat.err /\ DOMAIN newFormat.val # {} THEN newFormat.val
             ELSE IF ~ flatFormat.err /\ DOMAIN flatFormat.val # {} /\ focus # Nil
             THEN [c \in {focus} |-> flatFormat.val]
             ELSE EmptyMap

\* (w *OutputWorker) loadPendingUpdatesFromSnapshot; its nil is the empty map
OutputWorker_loadPendingUpdatesFromSnapshot(raw, focus) ==
    IF raw.k \in {"absent", "null"} THEN EmptyMap
    ELSE LET newFormat == Unmarshal(raw, TRUE)
             flatFormat == Unmarshal(raw, FALSE)
         IN  IF ~ newFormat.err /\ DOMAIN newFormat.val # {} THEN newFormat.val
             ELSE IF ~ flatFormat.err /\ DOMAIN flatFormat.val # {} /\ focus # Nil
             THEN [c \in {focus} |-> flatFormat.val]
             ELSE EmptyMap

\* json.Marshal of RuntimeState.PendingUpdates (omitempty)
Marshal(pendingUpdates) ==
    LET encode(v) == IF v = Null THEN JSON("null", Empty, EmptyMap)
                     ELSE JSON("string", v, EmptyMap)
    IN  IF DOMAIN pendingUpdates = {} THEN JSON("absent", Empty, EmptyMap)
        ELSE JSON("object", Empty,
                  [c \in DOMAIN pendingUpdates |->
                      JSON("object", Empty,
                           [f \in DOMAIN pendingUpdates[c] |->
                               encode(pendingUpdates[c][f])])])

\* the calls: a snapshot without pending_updates or with null, the
\* per-customer form over two customers and the legacy form over two fields
SnapshotCalls ==
    LET \* the objects over some of these keys with these values
        Objects(keys, values) ==
            {JSON("object", Empty, m) :
                m \in UNION {[ks -> values] : ks \in SUBSET keys}}
        scalars == {JSON("null", Empty, EmptyMap), JSON("string", "x", EmptyMap)}
        fields == {"follow_content", "follow_goal"}
        nested == Objects({"c1", "c2"},
                          Objects(fields, scalars) \cup {JSON("null", Empty, EmptyMap)})
        flat == Objects(fields, scalars) \ Objects({}, scalars)
        call(shape, raw, focus) ==
            [op |-> "loadPendingUpdatesFromSnapshot", shape |-> shape, raw |-> raw,
             focus |-> focus, orchestrator |-> {}, worker |-> {}, again |-> {}]
    IN  {call("empty", raw, focus) :
            raw \in {JSON("absent", Empty, EmptyMap), JSON("null", Empty, EmptyMap)},
            focus \in {Nil, "c1", "c2"}}
        \cup {call("nested", raw, focus) : raw \in nested, focus \in {Nil, "c1", "c2"}}
        \cup {call("flat", raw, focus) : raw \in flat, focus \in {"c1", "c2"}}

\* one of the two functions, or the orchestrator's on the marshalled result
\* of its first call, returns
Loaded(field, result) ==
    /\ eng.op = "loadPendingUpdatesFromSnapshot" /\ eng[field] = {}
    /\ eng' = [eng EXCEPT ![field] = {result}]
    /\ UNCHANGED <<dbVars, nextSid, userLocks, held, hs, processedEvents, taskQueue,
                   ws, msgs, delivered, faults, stop, turnLog>>

CallOrchestratorLoad ==
    Loaded("orchestrator", TurnOrchestrator_loadPendingUpdatesFromSnapshot(eng.raw, eng.focus))

CallWorkerLoad ==
    Loaded("worker", OutputWorker_loadPendingUpdatesFromSnapshot(eng.raw, eng.focus))

CallLoadAgain ==
    /\ eng.op = "loadPendingUpdatesFromSnapshot" /\ eng.orchestrator # {}
    /\ \E pendingUpdates \in eng.orchestrator :
          Loaded("again",
                 TurnOrchestrator_loadPendingUpdatesFromSnapshot(Marshal(pendingUpdates),
                                                                 eng.focus))

NextSnapshot == CallOrchestratorLoad \/ CallWorkerLoad \/ CallLoadAgain

SpecSnapshot == InitCalls(SnapshotCalls) /\ [][NextSnapshot]_vars

\* SpecCache: the deduplication cache of the gateway on its own, with
\* message ids 1..MaxIds and a clock that counts up to MaxClock.
\* MaxEntries stands for maxEntries (10000) and Retention for retention
\* (8 hours, in ticks of the clock).
MaxIds == 3
MaxClock == 3
MaxEntries == 2
Retention == 1

\* newProcessedEventsCache; out is what the last isProcessed returned
newProcessedEventsCache ==
    [op |-> "processedEventsCache", cache |-> EmptyMap, now |-> 0, out |-> FALSE]

\* the cache without the entries older than retention
DeleteExpired(cache, now) ==
    [k \in {j \in DOMAIN cache : ~ (now - cache[j] > Retention)} |-> cache[k]]

CacheStep(cache, out) ==
    /\ eng.op = "processedEventsCache"
    /\ eng' = [eng EXCEPT !.cache = cache, !.out = out]
    /\ UNCHANGED <<dbVars, nextSid, userLocks, held, hs, processedEvents, taskQueue,
                   ws, msgs, delivered, faults, stop, turnLog>>

cache_isProcessed(id) ==
    IF id \notin DOMAIN eng.cache THEN CacheStep(eng.cache, FALSE)
    ELSE IF eng.now - eng.cache[id] > Retention
    THEN CacheStep(MapDel(eng.cache, id), FALSE)
    ELSE CacheStep(eng.cache, TRUE)

cache_markProcessed(id) ==
    LET put == MapPut(eng.cache, id, eng.now)
    IN  IF Cardinality(DOMAIN put) > MaxEntries
        THEN CacheStep(DeleteExpired(put, eng.now), eng.out)
        ELSE CacheStep(put, eng.out)

\* a tick of the ticker of cleanupLoop
cleanupLoop == CacheStep(DeleteExpired(eng.cache, eng.now), eng.out)

\* time passes
ClockTick ==
    /\ eng.op = "processedEventsCache" /\ eng.now < MaxClock
    /\ eng' = [eng EXCEPT !.now = @ + 1]
    /\ UNCHANGED <<dbVars, nextSid, userLocks, held, hs, processedEvents, taskQueue,
                   ws, msgs, delivered, faults, stop, turnLog>>

NextCache ==
    \/ \E id \in 1..MaxIds : cache_isProcessed(id)
    \/ \E id \in 1..MaxIds : cache_markProcessed(id)
    \/ cleanupLoop
    \/ ClockTick

SpecCache == InitCalls({newProcessedEventsCache}) /\ [][NextCache]_vars

\* SpecLate: one user and one customer with one message more than Spec, so
\* that a session can go on to OUTPUTTING after the task of an earlier,
\* rolled back turn was taken by the worker.
MaxLateMsgs == 5

AnswersLate == {AnsChatter, AnsNoMore, AnsConfirm, AnsReport(<<Ref("A", FieldsAll)>>)}

SpecLate ==
    Init /\ [][Step({"h1"}, {"u1"}, AnswersLate, MaxLateMsgs, MaxLateMsgs, MaxFaults)]_vars

\* SpecStop: as Spec with fewer messages, and Stop is called at some point.
NextStop ==
    \/ Step({"h1"}, {"u1"}, AnswersWorker, MaxWorkerMsgs, MaxWorkerMsgs, MaxFaults)
    \/ StopCall
    \/ \E w \in Workers : WorkerExit(w)
    \/ StopReturn

SpecStop == Init /\ [][NextStop]_vars

(***************************************************************************)
(* Per-user serialization.                                                 *)
(***************************************************************************)
\* the handler holds a mutex it got from getUserLock
HasMutex(h) == hs[h].pc \in {"lock", "turn", "commit"}
\* the handler is between mu.Lock() and the return of ProcessTurn
InTurn(h) == hs[h].pc \in {"turn", "commit"}

C2_TurnIndexFromOne ==
    /\ \A d \in dialogs :
          d.idx = 1 \/ \E e \in dialogs : e.sid = d.sid /\ e.idx = d.idx - 1
    /\ \A d, e \in dialogs : d.sid = e.sid /\ d.idx = e.idx => d = e

(***************************************************************************)
(* Focus-pending coupling.                                                 *)
(***************************************************************************)
\* C3: no committed dialogs row in stage COLLECTING, CONFIRMING or
\* ASKING_OTHER_CUSTOMERS has non-empty pending_updates and a null
\* focus_customer_id.
C3_FocusWhenPending ==
    \A d \in dialogs :
        IsCollectionStatus(d.status) /\ DOMAIN d.pend # {} => d.focus # Nil

\* a confirmation left another customer pending: the session has a record
\* inserted on confirmation and a row whose pending_updates hold another
\* customer, who is the focus
C3_Witness ==
    \E d \in dialogs : \E i \in 1..Len(followRecords) :
        /\ followRecords[i].sid = d.sid /\ followRecords[i].by = "confirm"
        /\ d.status = StatusConfirming
        /\ followRecords[i].cust \notin DOMAIN d.pend
        /\ DOMAIN d.pend # {} /\ d.focus \in DOMAIN d.pend

(***************************************************************************)
(* Emission of follow records.                                             *)
(***************************************************************************)
\* C4: at most one follow record is ever inserted for a (session, customer)
\* pair, counting the inserts on confirmation and the inserts of the output
\* worker (rows of follow_records are never deleted by the service).
C4_EmitAtMostOnce ==
    \A i, j \in 1..Len(followRecords) :
        /\ followRecords[i].sid = followRecords[j].sid
        /\ followRecords[i].cust = followRecords[j].cust
        => i = j

\* the follow records of a session for a customer
CountFor(frs, sid, c) ==
    Cardinality({i \in 1..Len(frs) : frs[i].sid = sid /\ frs[i].cust = c})

\* the customers confirmed inline in a session
ConfirmedInline(frs, sid) ==
    {frs[i].cust : i \in {j \in 1..Len(frs) : frs[j].sid = sid /\ frs[j].by = "confirm"}}

\* the customers with non-empty pending_updates in the latest snapshot
FinalPending(ds, sid) ==
    IF SessionDialogs(ds, sid) = {} THEN {}
    ELSE LET pend == loadPendingUpdatesFromSnapshot(GetLatestDialog(ds, sid).snap)
         IN  {k \in DOMAIN pend : DOMAIN pend[k] # {}}

\* C5: when the worker has processed the task of a session (it has run
\* outputFollowRecords on the session's final snapshot), the session has
\* exactly one follow record for every customer confirmed inline or with
\* non-empty pending_updates in that snapshot, and none for another customer.
C5_EmitOnceAtClose ==
    [][\A w \in Workers :
          ws[w].pc = "idle" /\ ws'[w].pc = "dialogs" =>
              \A c \in CustIds :
                  CountFor(followRecords', ws'[w].task.sid, c) =
                      IF c \in ConfirmedInline(followRecords', ws'[w].task.sid)
                                  \cup FinalPending(dialogs, ws'[w].task.sid)
                      THEN 1 ELSE 0]_vars

(***************************************************************************)
(* Idempotent delivery.                                                    *)
(***************************************************************************)
\* C6: of the deliveries of one message_id, whether a later one arrives
\* after or during the handling of an earlier one, at most one runs
\* ProcessTurn and at most one appends a dialogs row.
C6_IdempotentDelivery ==
    \A i, j \in 1..Len(turnLog) :
        i # j /\ turnLog[i].msg = turnLog[j].msg =>
            /\ ~ (turnLog[i].began /\ turnLog[j].began)
            /\ ~ (turnLog[i].row /\ turnLog[j].row)

(***************************************************************************)
(* Snapshot before task.                                                   *)
(***************************************************************************)
\* C7: a worker runs processTask for a session's task only after the
\* ProcessTurn transaction that submitted the task (the one that writes the
\* OUTPUTTING row) has committed.
C7_TaskAfterCommit ==
    \A w \in Workers :
        ws[w].pc # "idle" => turnLog[ws[w].task.turn].committed

(***************************************************************************)
(* Resumability.                                                           *)
(***************************************************************************)
\* the row with the highest turn_index of a session that has rows
LastRow(sid) ==
    CHOOSE d \in dialogs : d.sid = sid /\ \A e \in dialogs : e.sid = sid => e.idx <= d.idx

\* what a turn persists, apart from the session it belongs to: the columns
\* of its dialogs row and the follow records it inserts
RowOf(t) ==
    [idx |-> t.c.rt.idx, state |-> t.c.rt.state, status |-> t.c.rt.status,
     focus |-> t.c.rt.focus, first |-> t.c.rt.first, rel |-> t.c.rt.rel,
     pend |-> t.c.rt.pend, reconf |-> t.c.rt.reconf]

RecordsOf(t) ==
    [i \in 1..Len(t.c.frs) |-> [t.c.frs[i] EXCEPT !.sid = 0, !.user = Nil]]

TurnResults(userID, ans) ==
    {[err |-> t.err, row |-> RowOf(t), frs |-> RecordsOf(t)] :
        t \in ProcessTurn(DB, userID, ans, FreeCustIds, nextSid)}

\* the sessions two idle users would continue, whose latest rows have the
\* same turn_index and the same runtime_snapshot
SameSnapshot(x, y) ==
    /\ x.id # y.id
    /\ \A h \in Handlers : hs[h].pc = "idle"
    /\ ActiveSessions(sessions, x.user) = {x}
    /\ ActiveSessions(sessions, y.user) = {y}
    /\ SessionDialogs(dialogs, x.id) # {} /\ SessionDialogs(dialogs, y.id) # {}
    /\ LastRow(x.id).idx = LastRow(y.id).idx
    /\ LastRow(x.id).snap = LastRow(y.id).snap

\* C8: two sessions whose latest dialogs rows carry equal runtime_snapshot
\* (the session identifier apart) produce equal results for the next turn,
\* the dialogs row persisted and the follow records emitted, under the same
\* utterance and the same answers of the language model, whatever their
\* earlier rows are.
C8_SnapshotDetermines ==
    \A x, y \in sessions :
        SameSnapshot(x, y) =>
            \A ans \in AnswersPair \cup {AnsConfirm, AnsNoMore} :
                TurnResults(x.user, ans) = TurnResults(y.user, ans)

(***************************************************************************)
(* One active session per user.                                            *)
(***************************************************************************)
\* C9: every user has at most one session row that is neither in status
\* EXIT nor ended.
C9_OneActiveSession ==
    \A u \in Users :
        Cardinality({x \in sessions :
                        x.user = u /\ x.status # StatusExit /\ ~ x.ended}) <= 1

\* after a message in stage OUTPUTTING a user has the ended session, marked
\* EXIT, and the new one
C9_Witness ==
    \E x, y \in sessions :
        /\ x.user = y.user
        /\ x.status = StatusExit /\ x.ended
        /\ y.status # StatusExit /\ ~ y.ended

(***************************************************************************)
(* Rollback.                                                               *)
(***************************************************************************)
\* the handler ends its turn with an error of ProcessTurn in this step
TurnFails(h) ==
    /\ hs[h].pc = "commit" /\ hs'[h].pc = "mark"
    /\ ~ turnLog'[hs[h].turn].committed

\* the handler ends its turn with a commit that writes a dialogs row
TurnWritesRow(h) ==
    /\ hs[h].pc = "commit" /\ hs'[h].pc = "mark"
    /\ turnLog'[hs[h].turn].committed /\ turnLog'[hs[h].turn].row

\* turn i failed and no later turn before j wrote a row of its session
FailedJustBefore(i, j) ==
    /\ i < j
    /\ turnLog[i].began /\ ~ turnLog[i].committed
    /\ turnLog[i].sid = turnLog[j].sid
    /\ \A k \in (i + 1)..(j - 1) :
          ~ (turnLog[k].sid = turnLog[j].sid /\ turnLog[k].committed /\ turnLog[k].row)

\* C10: a turn whose ProcessTurn returns an error leaves the tables as they
\* were (no dialogs row, follow record, session or customer written), and
\* the next turn of the session that succeeds writes its row with the
\* turn_index the failed turn would have used.
C10_RollbackKeepsIndex ==
    [][\A h \in Handlers :
          /\ TurnFails(h) => UNCHANGED dbVars
          /\ TurnWritesRow(h) =>
                \A i \in 1..Len(turnLog) :
                    FailedJustBefore(i, hs[h].turn) =>
                        turnLog[hs[h].turn].idx = turnLog[i].idx]_vars

(***************************************************************************)
(* Failing calls of the language model.                                    *)
(***************************************************************************)
\* the answers of a turn in which the failed classifiers said false and the
\* failed analysis gave nothing
Degraded(ans) ==
    [follow |-> ans.follow /\ "follow" \notin ans.fail,
     confirm |-> ans.confirm /\ "confirm" \notin ans.fail,
     nomore |-> ans.nomore /\ "nomore" \notin ans.fail,
     sem |-> IF "sem" \in ans.fail THEN NoSemantic ELSE ans.sem,
     fail |-> {}]

\* what a turn does to the tables and the queue, its reply left out
Effects(userID, ans) ==
    {[t EXCEPT !.reply = Empty] :
        t \in ProcessTurn(DB, userID, ans, FreeCustIds, nextSid)}

\* C11: whatever calls of the language model fail, ProcessTurn returns an
\* error only when a database operation failed; a turn with failed calls
\* does what the turn does in which the failed classifiers answer false and
\* the failed analysis yields no updates; a failed reply generation is
\* replaced by the canned reply; and a turn that loaded COLLECTING,
\* CONFIRMING or ASKING_OTHER_CUSTOMERS and returned no error committed its
\* one dialogs row.
C11_LLMErrorsAbsorbed ==
    /\ \A i \in 1..Len(turnLog) :
          LET t == turnLog[i]
          IN  /\ t.ret # "rule engine"
              /\ (t.ret = "nil" /\ IsCollectionStatus(t.stage)) =>
                    /\ t.row
                    /\ t.reply \in {"dialogue", "sorry", "askingOtherCustomers",
                                    "outputtingConfirm"}
                    /\ t.reply = "dialogue" => "dialogue" \notin t.fail
                    /\ Cardinality({d \in dialogs : d.turn = i}) <= 1
    /\ \A h \in Handlers :
          hs[h].pc = "turn" =>
              \A ans \in AnswersLLM :
                  Effects(hs[h].user, ans) = Effects(hs[h].user, Degraded(ans))

\* a turn in stage CONFIRMING in which every call failed wrote its row and
\* answered with the canned reply
C11_Witness ==
    \E i \in 1..Len(turnLog) :
        /\ turnLog[i].stage = StatusConfirming
        /\ turnLog[i].fail = LLMCalls
        /\ turnLog[i].ret = "nil" /\ turnLog[i].row
        /\ turnLog[i].reply = "sorry"
        /\ \E d \in dialogs : d.turn = i /\ d.status = StatusConfirming

(***************************************************************************)
(* The task queue.                                                         *)
(***************************************************************************)
\* the handler calls SubmitTask in this step
Submits(h) == hs[h].pc = "turn" /\ hs'[h].pc = "commit" /\ hs'[h].tx.submit

\* C12: SubmitTask returns at once: with room in the queue it appends the
\* task and returns nil; exactly when the queue is at its capacity it
\* returns the queue-full error and leaves the queue as it was; the queue
\* never holds more tasks than its capacity.
C12_SubmitNeverBlocks ==
    [][/\ Len(taskQueue') <= QueueCap
       /\ \A h \in Handlers :
             Submits(h) =>
                 IF Len(taskQueue) = QueueCap
                 THEN taskQueue' = taskQueue /\ ~ hs'[h].tx.queued
                 ELSE /\ hs'[h].tx.queued
                      /\ Len(taskQueue') = Len(taskQueue) + 1
                      /\ taskQueue'[Len(taskQueue')].sid = hs'[h].tx.c.rt.sid
                      /\ taskQueue'[Len(taskQueue')].user = hs[h].user
                      /\ SubSeq(taskQueue', 1, Len(taskQueue)) = taskQueue]_vars

\* SubmitTask was called on the full queue and returned the error
C12_Witness ==
    \E h \in Handlers :
        /\ hs[h].pc = "commit" /\ hs[h].tx.submit /\ ~ hs[h].tx.queued
        /\ Len(taskQueue) = QueueCap

(***************************************************************************)
(* The user has no more customers.                                         *)
(***************************************************************************)
\* the handler's turn ends in this step, no failure injected
TurnEnds(h) ==
    hs[h].pc = "commit" /\ hs'[h].pc = "mark" /\ faults' = faults

\* the tasks of a turn, queued or taken by a worker
TasksOf(turn) ==
    Cardinality({i \in 1..Len(taskQueue) : taskQueue[i].turn = turn})
        + Cardinality({w \in Workers : ws[w].task.turn = turn})

\* C13: a turn that loaded ASKING_OTHER_CUSTOMERS and whose utterance is
\* classified as no-more commits a dialogs row of stage OUTPUTTING, leaves
\* the session in status OUTPUTTING, has called SubmitTask once and returns
\* the outputting-confirm message; when SubmitTask found the queue full the
\* turn commits the same row and reply and no task of it is queued.
C13_NoMoreHandsOver ==
    [][\A h \in Handlers :
          LET t == hs[h].tx
              turn == hs[h].turn
          IN  (TurnEnds(h) /\ t.stage = StatusAskingOtherCustomers /\ t.said.nomore) =>
                  /\ t.submit
                  /\ turnLog'[turn].ret = "nil"
                  /\ turnLog'[turn].reply = "outputtingConfirm"
                  /\ \E d \in dialogs' :
                        /\ d.turn = turn /\ d.sid = t.c.rt.sid
                        /\ d.status = StatusOutputting
                        /\ d.snap.status = StatusOutputting
                  /\ \E x \in sessions' :
                        x.id = t.c.rt.sid /\ x.status = StatusOutputting /\ ~ x.ended
                  /\ ~ t.queued => TasksOf(turn) = 0
                  /\ TasksOf(turn) <= 1]_vars

(***************************************************************************)
(* Failures while the worker outputs the follow records.                   *)
(***************************************************************************)
\* a worker takes a task in this step and a statement of outputFollowRecords
\* fails
OutputFails(w) ==
    /\ ws[w].pc = "idle"
    /\ taskQueue # <<>> /\ taskQueue' = Tail(taskQueue)
    /\ faults' > faults

\* C14: when a statement of outputFollowRecords fails (reading the latest
\* dialog, or inserting the follow record of a customer of pending_updates)
\* processTask returns an error, no follow record of the task stays in the
\* table, and the dialogs rows and the session row stay as they are.
C14_OutputFailureRollsBack ==
    [][\A w \in Workers :
          OutputFails(w) =>
              /\ ws'[w].pc = "idle"
              /\ UNCHANGED dbVars]_vars

(***************************************************************************)
(* C15: a task that SubmitTask accepted for session S is eventually        *)
(* received by a worker, which runs processTask for it (the pool being     *)
(* started and not stopped), and when processTask reaches its end S is not *)
(* an active session: its dialogs rows and its sessions row are deleted    *)
(* or, the deletion of the sessions row having failed and the fallback     *)
(* update having succeeded, the row has status EXIT and ended_at set.      *)
(***************************************************************************)
Queued(turn) == \E i \in 1..Len(taskQueue) : taskQueue[i].turn = turn

\* the state of session sid that C15 requires when processTask ends
Finalized(ss, ds, sid) ==
    \/ SessionDialogs(ds, sid) = {} /\ ~ \E x \in ss : x.id = sid
    \/ \E x \in ss : x.id = sid /\ x.status = StatusExit /\ x.ended

C15_Run == \A turn \in 1..MaxWorkerMsgs : Queued(turn) ~> ~ Queued(turn)
C15_Done ==
    [][\A w \in Workers, ok \in BOOLEAN :
          WorkerDeleteSession(w, ok, TRUE, MaxWorkerFaults)
              => Finalized(sessions', dialogs', ws[w].task.sid)]_vars
C16_StopDrainsQueue ==
    stop.st = "returned" =>
        /\ \A w \in Workers : ws[w].pc = "exited"
        /\ \A i \in 1..Len(taskQueue) : taskQueue[i].turn \notin stop.before

(***************************************************************************)
(* C17: a turn in stage COLLECTING, CONFIRMING or ASKING_OTHER_CUSTOMERS   *)
(* whose utterance is not related to customer follow-up, is no             *)
(* confirmation and is no "no more customers" writes a dialogs row with    *)
(* the stage, state, focus and pending_updates of the session's previous   *)
(* snapshot (of the zero context for the first turn of a fresh session),   *)
(* and creates no customer and no follow record.                           *)
(***************************************************************************)
\* the body of ProcessTurn runs in this step, in one of the three stages,
\* for an utterance none of the classifiers accepts, and writes a row
UnrelatedTurn(h) ==
    /\ hs[h].pc = "turn" /\ hs'[h].pc = "commit"
    /\ hs'[h].tx.row
    /\ hs'[h].tx.stage \in {StatusCollecting, StatusConfirming, StatusAskingOtherCustomers}
    /\ ~ hs'[h].tx.said.follow /\ ~ hs'[h].tx.said.confirm /\ ~ hs'[h].tx.said.nomore

\* runtime rt has the stage, state, focus and pending_updates of prev
SameContext(rt, prev) ==
    /\ rt.status = prev.status /\ rt.state = prev.state
    /\ rt.focus = prev.focus /\ rt.pend = prev.pend

C17_UnrelatedTurnKeepsContext ==
    [][\A h \in Handlers :
          UnrelatedTurn(h) =>
              LET c == hs'[h].tx.c
              IN  /\ SameContext(c.rt, loadLatestRuntime(dialogs, c.rt.sid))
                  /\ c.wrote = {} /\ c.frs = <<>>]_vars

(***************************************************************************)
(* C18: in a turn in stage COLLECTING or ASKING_OTHER_CUSTOMERS whose      *)
(* analysis names several customers, the field updates of each reference   *)
(* are stored under pending_updates[id of the customer it names] and under *)
(* no other key, in whatever order the references come and whichever       *)
(* customer was the focus; pending_updates has a key for every customer    *)
(* named.                                                                  *)
(***************************************************************************)
\* the keys of pending_updates under which field f has value v after the
\* turn and had not before it
StoredUnder(before, after, f, v) ==
    {k \in DOMAIN after :
        /\ f \in DOMAIN after[k] /\ after[k][f] = v
        /\ ~ (k \in DOMAIN before /\ f \in DOMAIN before[k] /\ before[k][f] = v)}

\* the keys of pending_updates that are ids of customers called name
KeysNamed(c, name) == {k \in DOMAIN c.rt.pend : GetCustomer(c.custs, k).name = name}

RefsAttributed(before, c, refs) ==
    \A i \in 1..Len(refs) :
        /\ KeysNamed(c, refs[i].name) # {}
        /\ \A f \in DOMAIN refs[i].fu :
              /\ StoredUnder(before, c.rt.pend, f, refs[i].fu[f])
                    \subseteq KeysNamed(c, refs[i].name)
              /\ \E k \in KeysNamed(c, refs[i].name) :
                    f \in DOMAIN c.rt.pend[k] /\ c.rt.pend[k][f] = refs[i].fu[f]

C18_RefsAttributedToNamed ==
    \A h \in Handlers :
        hs[h].pc = "turn" =>
            \A refs \in MultiRefs :
                \A t \in ProcessTurn(DB, hs[h].user, AnsReport(refs), FreeCustIds, nextSid) :
                    (~ t.err /\ t.stage \in {StatusCollecting, StatusAskingOtherCustomers})
                        => RefsAttributed(loadLatestRuntime(dialogs, t.c.rt.sid).pend,
                                          t.c, refs)

(***************************************************************************)
(* C19: a turn creates or changes the risk_content entry of                *)
(* pending_updates[c] only if CanWriteRisk holds: the semantic relevance   *)
(* of the turn is STRONG and the state of customer c is FOLLOW_RESULT or   *)
(* NEXT_PLAN; this whether the analysis gives the risk under the key risk  *)
(* or risk_content, and in COLLECTING, ASKING_OTHER_CUSTOMERS and          *)
(* CONFIRMING alike.                                                       *)
(***************************************************************************)
RiskOf(pend, k) ==
    IF k \in DOMAIN pend /\ "risk_content" \in DOMAIN pend[k]
    THEN pend[k]["risk_content"] ELSE Nil

\* the state of customer k in the context prev the turn loaded
StateOf(prev, custs, k) ==
    IF k = prev.focus THEN prev.state
    ELSE DetermineState(GetCustomer(custs, k),
                        buildFollowRecordFromCollectedData(GetCustomer(custs, k),
                                                           PendOf(prev, k)))

\* the customers whose risk_content the body of ProcessTurn, run in this
\* step by handler h, creates or changes
RiskWritten(h) ==
    IF ~ (hs[h].pc = "turn" /\ hs'[h].pc = "commit" /\ hs'[h].tx.row) THEN {}
    ELSE LET rt == hs'[h].tx.c.rt
             prev == loadLatestRuntime(dialogs, rt.sid)
         IN  {k \in DOMAIN rt.pend :
                 RiskOf(rt.pend, k) # Nil /\ RiskOf(rt.pend, k) # RiskOf(prev.pend, k)}

C19_RiskOnlyUnderCanWriteRisk ==
    [][\A h \in Handlers : \A k \in RiskWritten(h) :
          CanWriteRisk(hs'[h].tx.c.rt.rel,
                       StateOf(loadLatestRuntime(dialogs, hs'[h].tx.c.rt.sid),
                               customers, k))]_vars

(***************************************************************************)
(* C20: when IsUserConfirmation returns true in a CONFIRMING turn whose    *)
(* focus is customer f, exactly one follow record is inserted, for f and   *)
(* the user of the session, with the follow_* values of                    *)
(* pending_updates[f]; the entry of f is removed from pending_updates and  *)
(* the entries of the other customers are unchanged; and when no other     *)
(* customer is pending the snapshot written has no focus, state            *)
(* CUSTOMER_NAME and stage ASKING_OTHER_CUSTOMERS.                         *)
(***************************************************************************)
FollowFields ==
    {"follow_method", "follow_content", "follow_goal", "follow_result", "next_plan"}

\* the body of ProcessTurn runs in this step for a confirmation in stage
\* CONFIRMING, the snapshot it loads having a focus
ConfirmTurn(h) ==
    /\ hs[h].pc = "turn" /\ hs'[h].pc = "commit"
    /\ hs'[h].tx.stage = StatusConfirming
    /\ hs'[h].tx.said.confirm
    /\ loadLatestRuntime(dialogs, hs'[h].tx.c.rt.sid).focus # Nil

\* what C20 requires of the context c the body ends with, prev being the
\* context it loaded
Confirmed(prev, c, userID) ==
    LET f == prev.focus
    IN  /\ ~ c.err
        /\ Len(c.frs) = 1
        /\ c.frs[1].cust = f /\ c.frs[1].user = userID /\ c.frs[1].sid = prev.sid
        /\ \A k \in FollowFields :
              c.frs[1][k] = IF k \in DOMAIN PendOf(prev, f) THEN PendOf(prev, f)[k] ELSE Nil
        /\ DOMAIN c.rt.pend = DOMAIN prev.pend \ {f}
        /\ \A k \in DOMAIN c.rt.pend : c.rt.pend[k] = prev.pend[k]
        /\ DOMAIN c.rt.pend = {} =>
              /\ c.rt.focus = Nil
              /\ c.rt.state = StateCustomerName
              /\ c.rt.status = StatusAskingOtherCustomers

\* the transaction of a turn that inserted one follow record commits:
\* the record and the snapshot are in the tables
CommitsConfirmed(h) ==
    hs[h].pc = "commit" /\ hs[h].tx.stage = StatusConfirming
        /\ Len(hs[h].tx.c.frs) = 1 /\ turnLog'[hs[h].turn].committed
    => /\ followRecords' = Append(followRecords, hs[h].tx.c.frs[1])
       /\ \E d \in dialogs' \ dialogs :
             /\ d.turn = hs[h].turn
             /\ d.snap.pend = MarshalPending(hs[h].tx.c.rt.pend)
             /\ d.snap.focus = hs[h].tx.c.rt.focus
             /\ d.snap.state = hs[h].tx.c.rt.state
             /\ d.snap.status = hs[h].tx.c.rt.status

Correction(F) == AnsReport(<<Ref(Empty, [f \in {F} |-> "z"])>>)

\* the runtimes a turn of handler h ends with when it loads stage, with a
\* focus, and the utterance is answered by ans
RuntimesAfter(h, stage, ans) ==
    {t.c.rt : t \in {u \in ProcessTurn(DB, hs[h].user, ans, FreeCustIds, nextSid) :
                       /\ u.stage = stage /\ u.row
                       /\ loadLatestRuntime(dialogs, u.c.rt.sid).focus # Nil}}

C21_CorrectionSetsOwningState ==
    \A h \in Handlers :
        hs[h].pc = "turn" =>
            \A F \in FollowFields : \A rt \in RuntimesAfter(h, StatusConfirming, Correction(F)) :
                /\ rt.state = HandleFieldModification(F)
                /\ rt.reconf

(***************************************************************************)
(* C22: after a correction in CONFIRMING that leaves every pending         *)
(* customer COMPLETE, the stage of every following snapshot is CONFIRMING  *)
(* until the user confirms, never ASKING_OTHER_CUSTOMERS, and              *)
(* pending_reconfirm is cleared once CONFIRMING has been re-entered: a     *)
(* turn that follows the correction and neither corrects nor confirms      *)
(* writes a snapshot in CONFIRMING with pending_reconfirm false.           *)
(***************************************************************************)
\* the snapshot the turn of this step loads was written in CONFIRMING with
\* pending_reconfirm set, every pending customer being COMPLETE
AfterCorrection(h) ==
    LET prev == loadLatestRuntime(dialogs, hs'[h].tx.c.rt.sid)
    IN  /\ prev.status = StatusConfirming /\ prev.reconf
        /\ \A k \in DOMAIN prev.pend :
              DetermineState(GetCustomer(customers, k),
                             buildFollowRecordFromCollectedData(
                                 GetCustomer(customers, k), prev.pend[k])) = StateComplete

C22_StaysConfirming ==
    [][\A h \in Handlers :
          UnrelatedTurn(h) /\ AfterCorrection(h)
              => hs'[h].tx.c.rt.status = StatusConfirming]_vars

C22_ReconfirmCleared ==
    [][\A h \in Handlers :
          UnrelatedTurn(h) /\ AfterCorrection(h) => ~ hs'[h].tx.c.rt.reconf]_vars

C22_CorrectionReturnsToConfirming == C22_StaysConfirming /\ C22_ReconfirmCleared

(***************************************************************************)
(* C23: when a turn finds the user's active session in OUTPUTTING and the  *)
(* utterance is follow-related, then after the turn commits the old        *)
(* session is not active any more (status EXIT with ended_at set, unless   *)
(* the output worker has deleted the row meanwhile), the user's only       *)
(* active session is the new one, in COLLECTING, and the turn's dialogs row *)
(* is the first row of the new session, turn_index 1, with the customer    *)
(* the utterance names as focus.                                           *)
(***************************************************************************)
\* the transaction of a turn that ends an OUTPUTTING session commits
RestartCommits(h) ==
    hs[h].pc = "commit" /\ hs[h].tx.exit # 0 /\ turnLog'[hs[h].turn].committed

\* the new session is the only active one and has the turn's row as its
\* first and only row
NewSessionStarted(h) ==
    LET t == hs[h].tx
    IN  /\ ActiveSessions(sessions', hs[h].user)
              = {Session(t.c.rt.sid, hs[h].user, StatusCollecting)}
        /\ t.c.rt.sid \notin {x.id : x \in sessions}
        /\ \E d \in dialogs' :
              /\ SessionDialogs(dialogs', t.c.rt.sid) = {d}
              /\ d.turn = hs[h].turn /\ d.idx = 1
              /\ d.focus = t.c.rt.mentioned

Ended(ss, sid) == \E x \in ss : x.id = sid /\ x.status = StatusExit /\ x.ended

C23_FollowUpStartsNewSession ==
    [][\A h \in Handlers :
          RestartCommits(h) =>
              /\ Ended(sessions', hs[h].tx.exit)
                    \/ ~ \E x \in sessions' : x.id = hs[h].tx.exit
              /\ NewSessionStarted(h)]_vars

\* a no-more turn was committed on a session, whose task is still queued,
\* and a later turn ended that session and committed the first row of a
\* new one, with a focus
C23_Witness ==
    \E j, i \in 1..Len(turnLog) :
        /\ j < i /\ faults = 0
        /\ turnLog[j].committed /\ turnLog[j].reply = "outputtingConfirm" /\ Queued(j)
        /\ Ended(sessions, turnLog[j].sid)
        /\ turnLog[i].committed /\ turnLog[i].idx = 1 /\ turnLog[i].sid # turnLog[j].sid
        /\ \E d \in dialogs : d.turn = i /\ d.focus # Nil

\* C23 as stated: the old session's row has status EXIT and ended_at set
C23_AsStated ==
    [][\A h \in Handlers :
          RestartCommits(h) =>
              /\ Ended(sessions', hs[h].tx.exit)
              /\ NewSessionStarted(h)]_vars

(***************************************************************************)
(* C24.  DetermineState returns CUSTOMER_NAME for a nil customer and       *)
(* FOLLOW_CONTENT for an existing customer with a nil follow record;       *)
(* otherwise it returns the state of the first field, in the order         *)
(* follow_content, follow_goal, follow_result, next_plan, follow_method,   *)
(* that is nil or empty, and COMPLETE exactly when all five are non-empty; *)
(* for an existing customer it never returns CUSTOMER_NAME.                *)
(***************************************************************************)
FieldOrder ==
    <<"follow_content", "follow_goal", "follow_result", "next_plan", "follow_method">>

Missing(fr) == {i \in 1..Len(FieldOrder) : fr[FieldOrder[i]] \in {Nil, Empty}}

FirstMissing(fr) == CHOOSE i \in Missing(fr) : \A j \in Missing(fr) : i <= j

StateReturned(s) == eng.op = "DetermineState" /\ eng.out = {s}

StatusReturned(s) == eng.op = "DetermineStatus" /\ eng.out = {s}

Incomplete(customerStates) ==
    {c \in DOMAIN customerStates : customerStates[c] # StateComplete}

C25_DetermineStatusByStates ==
    (eng.op = "DetermineStatus" /\ eng.out # {}) =>
        /\ StatusReturned(StatusAskingOtherCustomers) <=> DOMAIN eng.customerStates = {}
        /\ StatusReturned(StatusCollecting) <=> Incomplete(eng.customerStates) # {}
        /\ StatusReturned(StatusConfirming) <=>
               (DOMAIN eng.customerStates # {} /\ Incomplete(eng.customerStates) = {})
        /\ ~ StatusReturned(StatusOutputting)
        /\ ~ StatusReturned(StatusExit)

\* one customer COMPLETE and another not: COLLECTING
C25_Witness ==
    /\ StatusReturned(StatusCollecting)
    /\ \E c \in DOMAIN eng.customerStates : eng.customerStates[c] = StateComplete

(***************************************************************************)
(* C26.  Outside CONFIRMING and ASKING_OTHER_CUSTOMERS SelectFocusCustomer *)
(* returns the mentioned customer if there is one; else the current focus  *)
(* if it is in customerStates with a state other than COMPLETE; else the   *)
(* incomplete customer whose state is earliest in the canonical order,     *)
(* and of several in that state the one with the smallest id; and nil when *)
(* every customer is COMPLETE and none was mentioned.  The result is a     *)
(* function of the arguments.                                              *)
(***************************************************************************)
StateRank(s) == CHOOSE i \in 1..Len(RecalcStateOrder) : RecalcStateOrder[i] = s

\* the incomplete customer with the earliest state, the smallest id first
EarliestIncomplete(customerStates) ==
    LET cand == Incomplete(customerStates)
        before(a, b) ==
            \/ StateRank(customerStates[a]) < StateRank(customerStates[b])
            \/ /\ StateRank(customerStates[a]) = StateRank(customerStates[b])
               /\ CustRank(a) <= CustRank(b)
    IN  IF cand = {} THEN Nil
        ELSE CHOOSE c \in cand : \A o \in cand : before(c, o)

FocusByPriority(currentFocus, mentionedCustomer, customerStates) ==
    IF mentionedCustomer # Nil THEN mentionedCustomer
    ELSE IF currentFocus \in Incomplete(customerStates) THEN currentFocus
    ELSE EarliestIncomplete(customerStates)

FocusReturned == eng.op = "SelectFocusCustomer" /\ eng.out # {}

C26_FocusByPriorityThenOrder ==
    (FocusReturned /\ eng.status \notin {StatusConfirming, StatusAskingOtherCustomers}) =>
        eng.out = {FocusByPriority(eng.currentFocus, eng.mentionedCustomer,
                                   eng.customerStates)}

FocusRows(sid, customerID) == {d \in SessionDialogs(dialogs, sid) : d.focus = customerID}

FollowTimeOf(prev, customerID) ==
    LET data == PendOf(prev, customerID)
        rows == FocusRows(prev.sid, customerID)
    IN  IF "follow_time" \in DOMAIN data /\ data["follow_time"] \in DateValues
        THEN TimeUser
        ELSE IF rows # {}
        THEN TimeOfDialog((CHOOSE d \in rows : \A e \in rows : d.idx <= e.idx).idx)
        ELSE TimeNow

C28_FollowTimeFromUserThenFirstFocus ==
    [][\A h \in Handlers :
          (ConfirmTurn(h) /\ Len(hs'[h].tx.c.frs) = 1) =>
              hs'[h].tx.c.frs[1].time =
                  FollowTimeOf(loadLatestRuntime(dialogs, hs'[h].tx.c.rt.sid),
                               hs'[h].tx.c.frs[1].cust)]_vars

(***************************************************************************)
(* C29.  In every session, of the committed dialog rows whose focus is a   *)
(* customer c the one with the smallest turn_index has is_first_focus true *)
(* and every later one has is_first_focus false, also when c became the    *)
(* focus because the user named it in that turn.                           *)
(***************************************************************************)
EarliestFocusRow(d) ==
    \A e \in SessionDialogs(dialogs, d.sid) : e.focus = d.focus => d.idx <= e.idx

C29_FirstFocusOnEarliestRow ==
    \A d \in dialogs : d.focus # Nil => (d.first <=> EarliestFocusRow(d))

(***************************************************************************)
(* C30.  In a CONFIRMING turn that is not a confirmation and whose         *)
(* semantic analysis carries field_updates, every follow_* field of the    *)
(* field_updates is written to pending_updates[focus], all of them when    *)
(* there are several; the other fields of pending_updates[focus] and the   *)
(* entries of the other customers are unchanged; and no follow record is   *)
(* inserted in the turn.                                                   *)
(***************************************************************************)
\* the answers that amend the report of the focus: one customer_ref
\* without a customer name
Amendments ==
    {a \in AnswersAmend :
        /\ ~ a.confirm /\ a.sem.ok /\ Len(a.sem.refs) = 1
        /\ a.sem.refs[1].name = Empty}

\* what C30 requires of the context c the body ends with, prev being the
\* runtime it loaded and fu the field_updates
Amended(prev, c, fu) ==
    LET f == prev.focus
        old == PendOf(prev, f)
        new == PendOf(c.rt, f)
    IN  /\ \A k \in DOMAIN fu \cap (FollowFields \cup {"follow_time"}) :
              k \in DOMAIN new /\ new[k] = fu[k]
        /\ \A k \in DOMAIN old \ DOMAIN fu : k \in DOMAIN new /\ new[k] = old[k]
        /\ DOMAIN new \subseteq DOMAIN old \cup DOMAIN fu
        /\ DOMAIN c.rt.pend \subseteq DOMAIN prev.pend \cup {f}
        /\ \A o \in DOMAIN prev.pend \ {f} :
              o \in DOMAIN c.rt.pend /\ c.rt.pend[o] = prev.pend[o]
        /\ c.frs = <<>>

AmendTurns(h, ans) ==
    {t \in ProcessTurn(DB, hs[h].user, ans, FreeCustIds, nextSid) :
        /\ t.stage = StatusConfirming /\ t.row
        /\ loadLatestRuntime(dialogs, t.c.rt.sid).focus # Nil}

C30_AmendmentWritesEveryField ==
    \A h \in Handlers :
        hs[h].pc = "turn" =>
            \A ans \in Amendments : \A t \in AmendTurns(h, ans) :
                Amended(loadLatestRuntime(dialogs, t.c.rt.sid), t.c,
                        ans.sem.refs[1].fu)

(***************************************************************************)
(* C31.  In a CONFIRMING turn that is not a confirmation no customer row   *)
(* is created and the focus_customer_id written is the focus of the        *)
(* previous snapshot, whatever customer names the semantic analysis        *)
(* returns.                                                                *)
(***************************************************************************)
CustomerIds(custs) == {x.id : x \in custs}

\* the body of ProcessTurn runs in this step in stage CONFIRMING, the
\* utterance not being a confirmation
AmendingTurn(h) ==
    /\ hs[h].pc = "turn" /\ hs'[h].pc = "commit"
    /\ hs'[h].tx.row
    /\ hs'[h].tx.stage = StatusConfirming
    /\ ~ hs'[h].tx.said.confirm

\* the transaction of such a turn commits: the row holds the focus the
\* body ended with
AmendingCommit(h) ==
    /\ hs[h].pc = "commit" /\ hs[h].tx.stage = StatusConfirming
    /\ ~ hs[h].tx.said.confirm
    /\ turnLog'[hs[h].turn].committed

C31_AmendingKeepsFocusAndCustomers ==
    [][\A h \in Handlers :
          /\ AmendingTurn(h) =>
                /\ CustomerIds(hs'[h].tx.c.custs) = CustomerIds(customers)
                /\ hs'[h].tx.c.rt.focus =
                       loadLatestRuntime(dialogs, hs'[h].tx.c.rt.sid).focus
          /\ AmendingCommit(h) =>
                /\ CustomerIds(customers') = CustomerIds(customers)
                /\ \E d \in dialogs' \ dialogs :
                      /\ d.turn = hs[h].turn
                      /\ d.focus = hs[h].tx.c.rt.focus
                      /\ d.snap.focus = d.focus]_vars

\* a report with customer_refs has been committed in stage CONFIRMING: the
\* row keeps the focus of the row before it
C31_Witness ==
    \E d, e \in dialogs :
        /\ d.sid = e.sid /\ d.idx = e.idx + 1
        /\ turnLog[d.turn].stage = StatusConfirming
        /\ d.rel = SemanticStrong /\ d.status # StatusAskingOtherCustomers
        /\ d.focus = e.focus /\ d.focus # Nil

(***************************************************************************)
(* C32.  When a turn finds the user's active session in OUTPUTTING and the *)
(* utterance is classified not follow-up-related, or the classification    *)
(* fails, ProcessTurn returns the already-ended message and changes        *)
(* nothing: no dialog row is appended, no session row is created or        *)
(* updated and no output task is queued.                                   *)
(***************************************************************************)
\* the body of ProcessTurn runs in this step, finds the active session in
\* OUTPUTTING and the utterance is not a follow-up or the call fails
EndedTurn(h) ==
    /\ hs[h].pc = "turn" /\ hs'[h].pc = "commit"
    /\ ActiveSessions(sessions, hs[h].user) # {}
    /\ GetActiveSession(sessions, hs[h].user).status = StatusOutputting
    /\ ~ hs'[h].tx.said.follow \/ "follow" \in turnLog'[hs[h].turn].fail

\* the transaction of such a turn ends in this step
EndedTurnReturns(h) ==
    /\ hs[h].pc = "commit" /\ hs'[h].pc # "commit"
    /\ hs[h].tx.reply = "outputtingEnded"

NothingChanged == UNCHANGED <<dbVars, taskQueue, nextSid>>

C32_EndedSessionTurnChangesNothing ==
    [][\A h \in Handlers :
          /\ EndedTurn(h) =>
                /\ hs'[h].tx.reply = "outputtingEnded"
                /\ ~ hs'[h].tx.row /\ ~ hs'[h].tx.create /\ ~ hs'[h].tx.submit
                /\ hs'[h].tx.exit = 0 /\ ~ hs'[h].tx.err
                /\ hs'[h].tx.c.wrote = {} /\ hs'[h].tx.c.frs = <<>>
                /\ NothingChanged
          /\ EndedTurnReturns(h) =>
                /\ NothingChanged
                /\ turnLog'[hs[h].turn].committed =>
                      /\ turnLog'[hs[h].turn].reply = "outputtingEnded"
                      /\ turnLog'[hs[h].turn].ret = "nil"]_vars

\* such a turn has ended, the classification having failed; the session
\* is still in OUTPUTTING
C32_Witness ==
    \E i \in 1..Len(turnLog) :
        /\ turnLog[i].committed /\ turnLog[i].reply = "outputtingEnded"
        /\ "follow" \in turnLog[i].fail
        /\ \E x \in sessions : x.status = StatusOutputting

(***************************************************************************)
(* C33.  For every snapshot (per-customer pending_updates, legacy flat     *)
(* pending_updates with a focus_customer_id, or none) the orchestrator's   *)
(* and the output worker's loadPendingUpdatesFromSnapshot yield the same   *)
(* (customer, field, value) triples; for a legacy flat map these are       *)
(* exactly its (field, value) pairs under the focus_customer_id; and       *)
(* marshalling the result and loading it again yields the same triples.    *)
(***************************************************************************)
Triples(pendingUpdates) ==
    UNION {{<<c, f, pendingUpdates[c][f]>> : f \in DOMAIN pendingUpdates[c]} :
              c \in DOMAIN pendingUpdates}

\* the pairs of a flat map under the customer
FlatTriples(raw, customerID) ==
    {<<customerID, f, IF raw.m[f].k = "null" THEN Null ELSE raw.m[f].s>> :
        f \in DOMAIN raw.m}

LoadersAgree ==
    \A o \in eng.orchestrator, w \in eng.worker : Triples(o) = Triples(w)

FlatRekeyed ==
    eng.shape = "flat" =>
        \A o \in eng.orchestrator : Triples(o) = FlatTriples(eng.raw, eng.focus)

ReloadSame ==
    \A o \in eng.orchestrator, a \in eng.again : Triples(a) = Triples(o)

C33_SnapshotFormsLoadAlike ==
    eng.op = "loadPendingUpdatesFromSnapshot" =>
        LoadersAgree /\ FlatRekeyed /\ ReloadSame

(***************************************************************************)
(* C34.  After any sequence of isProcessed and markProcessed calls the     *)
(* deduplication cache holds at most maxEntries message ids.               *)
(***************************************************************************)
C34_CacheWithinMaxEntries ==
    eng.op = "processedEventsCache" => Cardinality(DOMAIN eng.cache) <= MaxEntries

(***************************************************************************)
(* C35.  Whenever a committed dialog row has stage ASKING_OTHER_CUSTOMERS, *)
(* every customer collected in its session has a follow record of that     *)
(* session, and at least one customer was confirmed before: a session in   *)
(* which no customer was collected is never put into                       *)
(* ASKING_OTHER_CUSTOMERS.                                                 *)
(***************************************************************************)
\* the customers with pending data in a row of the session up to row d
CollectedBefore(d) ==
    UNION {DOMAIN e.pend : e \in {x \in SessionDialogs(dialogs, d.sid) : x.idx <= d.idx}}

PersistedIn(sid) ==
    {followRecords[i].cust : i \in {j \in 1..Len(followRecords) : followRecords[j].sid = sid}}

C35_AskingOnlyAfterPersisting ==
    \A d \in dialogs :
        d.status = StatusAskingOtherCustomers =>
            /\ PersistedIn(d.sid) # {}
            /\ CollectedBefore(d) \subseteq PersistedIn(d.sid)

(***************************************************************************)
(* C36.  Every committed dialog row with stage OUTPUTTING has empty        *)
(* pending_updates; so outputFollowRecords inserts no follow record for a  *)
(* session that reached OUTPUTTING through ProcessTurn, and all the follow *)
(* records of such a session come from the confirmations.                  *)
(***************************************************************************)
OutputtingRowsEmpty ==
    \A d \in dialogs :
        d.status = StatusOutputting => d.pend = EmptyMap /\ ~ d.snap.pend.present

\* the sessions a committed turn has put into OUTPUTTING
Outputting == {x \in sessions : x.status = StatusOutputting}

\* no follow record of such a session was inserted by outputFollowRecords
OutputtingRecordsConfirmed ==
    \A x \in Outputting : \A i \in 1..Len(followRecords) :
        followRecords[i].sid = x.id => followRecords[i].by = "confirm"

C36_OutputtingHasNothingPending == OutputtingRowsEmpty /\ OutputtingRecordsConfirmed

\* C37: in every committed dialogs row whose stage is COLLECTING, CONFIRMING
\* or ASKING_OTHER_CUSTOMERS the stored stage and state are what the rule
\* engine derives from the stored pending_updates: ASKING_OTHER_CUSTOMERS iff
\* pending_updates is empty (and then the focus is null), CONFIRMING iff it
\* is non-empty and every customer in it has the five required fields
\* non-empty, COLLECTING otherwise; a non-null focus is a key of
\* pending_updates; the state is DetermineState of the focus customer's
\* pending data, CUSTOMER_NAME when the focus is null.
RequiredFields ==
    {"follow_content", "follow_goal", "follow_result", "next_plan", "follow_method"}

AllRequired(data) ==
    \A f \in RequiredFields : f \in DOMAIN data /\ data[f] # Nil /\ data[f] # Empty

\* the stage the claim derives from a pending_updates map
StageOfPending(pend) ==
    IF DOMAIN pend = {} THEN StatusAskingOtherCustomers
    ELSE IF \A k \in DOMAIN pend : AllRequired(pend[k]) THEN StatusConfirming
    ELSE StatusCollecting

\* the state the claim derives from the focus and the pending_updates map
StateOfPending(focus, pend) ==
    IF focus = Nil THEN StateCustomerName
    ELSE DetermineState(GetCustomer(customers, focus),
                        buildFollowRecordFromCollectedData(GetCustomer(customers, focus),
                                                           MapGet(pend, focus)))

LiveRows ==
    {d \in dialogs : d.status \in {StatusCollecting, StatusConfirming,
                                   StatusAskingOtherCustomers}}

StageFromPending == \A d \in LiveRows : d.status = StageOfPending(d.pend)

AskingHasNoFocus ==
    \A d \in LiveRows : d.status = StatusAskingOtherCustomers => d.focus = Nil

FocusIsPending == \A d \in LiveRows : d.focus # Nil => d.focus \in DOMAIN d.pend

StateFromPending == \A d \in LiveRows : d.state = StateOfPending(d.focus, d.pend)

Filled(r) == \A f \in RequiredFields : r[f] # Nil /\ r[f] # Empty

\* the committed records of the confirmation path
ConfirmedRecordsFilled ==
    \A i \in 1..Len(followRecords) :
        followRecords[i].by = "confirm" => Filled(followRecords[i])

\* the body of ProcessTurn runs in this step and inserts follow records
ConfirmingTurn(h) ==
    /\ hs[h].pc = "turn" /\ hs'[h].pc = "commit"
    /\ hs'[h].tx.c.frs # <<>>

\* the transaction of a turn commits its follow records in this step
ConfirmingCommit(h) ==
    /\ hs[h].pc = "commit" /\ hs[h].tx.c.frs # <<>>
    /\ turnLog'[hs[h].turn].committed

C38_ConfirmedRecordComplete ==
    /\ []ConfirmedRecordsFilled
    /\ [][\A h \in Handlers :
             /\ ConfirmingTurn(h) =>
                   LET t == hs'[h].tx
                       previous == loadLatestRuntime(dialogs, t.c.rt.sid)
                   IN  /\ previous.status = StatusConfirming
                       /\ \A i \in 1..Len(t.c.frs) :
                             /\ t.c.frs[i].by = "confirm"
                             /\ Filled(t.c.frs[i])
                             /\ t.c.frs[i].cust = previous.focus
                             /\ t.c.frs[i].sid = t.c.rt.sid
             /\ ConfirmingCommit(h) =>
                   followRecords' = followRecords \o hs[h].tx.c.frs]_vars

\* a confirmation has been committed: the record is that of the customer
\* the CONFIRMING row before it had in focus
C38_Witness ==
    \E i \in 1..Len(followRecords) : \E d \in dialogs :
        /\ followRecords[i].by = "confirm"
        /\ d.sid = followRecords[i].sid
        /\ d.status = StatusConfirming
        /\ d.focus = followRecords[i].cust
        /\ \E e \in dialogs : e.sid = d.sid /\ e.idx = d.idx + 1 /\ e.focus = Nil

(***************************************************************************)
(* C39.  When a ProcessTurn that puts its session into OUTPUTTING fails    *)
(* after SubmitTask and is rolled back, no OutputTask of that session      *)
(* remains queued, so the worker never deletes the dialogs rows or the     *)
(* sessions row of a session whose OUTPUTTING transition was not           *)
(* committed.                                                              *)
(***************************************************************************)
\* the transaction of turn n was rolled back and ProcessTurn has returned
RolledBack(n) ==
    /\ turnLog[n].began /\ ~ turnLog[n].committed
    /\ turnLog[n].ret \in {"rule engine", "database"}

\* a worker runs processTask for the task of turn n
Processing(n) == \E w \in Workers : ws[w].pc # "idle" /\ ws[w].task.turn = n

C39_RolledBackTurnLeavesNoTask ==
    \A n \in DOMAIN turnLog : RolledBack(n) => ~ Queued(n) /\ ~ Processing(n)

(***************************************************************************)
(* C40.  Between consecutive committed dialogs rows of a session the stage *)
(* moves only along these edges: COLLECTING to COLLECTING or CONFIRMING;   *)
(* CONFIRMING to CONFIRMING, COLLECTING or ASKING_OTHER_CUSTOMERS;         *)
(* ASKING_OTHER_CUSTOMERS to itself, COLLECTING, CONFIRMING or OUTPUTTING. *)
(* OUTPUTTING is entered only from ASKING_OTHER_CUSTOMERS on a no-more     *)
(* utterance, no row is appended after an OUTPUTTING row, and no row has   *)
(* stage EXIT.                                                             *)
(***************************************************************************)
Edges(stage) ==
    CASE stage = StatusCollecting -> {StatusCollecting, StatusConfirming}
      [] stage = StatusConfirming ->
             {StatusConfirming, StatusCollecting, StatusAskingOtherCustomers}
      [] stage = StatusAskingOtherCustomers ->
             {StatusAskingOtherCustomers, StatusCollecting, StatusConfirming,
              StatusOutputting}
      [] OTHER -> {}

RowEdges ==
    \A d \in dialogs : \A e \in dialogs :
        (d.sid = e.sid /\ e.idx = d.idx + 1) => e.status \in Edges(d.status)

NothingAfterOutputting ==
    \A d \in dialogs : \A e \in dialogs :
        (d.sid = e.sid /\ d.status = StatusOutputting) => e.idx <= d.idx

NoExitRow == \A d \in dialogs : d.status # StatusExit

\* the body of ProcessTurn runs in this step for a session that has rows
\* and ends with a row to write
TurnOnRow(h) ==
    /\ hs[h].pc = "turn" /\ hs'[h].pc = "commit"
    /\ hs'[h].tx.row
    /\ SessionDialogs(dialogs, hs'[h].tx.c.rt.sid) # {}

TurnEdges ==
    \A h \in Handlers :
        TurnOnRow(h) =>
            LET t == hs'[h].tx
            IN  /\ t.stage = GetLatestDialog(dialogs, t.c.rt.sid).status
                /\ t.c.rt.status \in Edges(t.stage)
                /\ t.c.rt.status = StatusOutputting =>
                      t.stage = StatusAskingOtherCustomers /\ t.said.nomore

====
